---- MODULE Spec2Model ----
(***************************************************************************)
(* Session-gated request routing of the chat application: the Request Gate *)
(* (src/middleware.ts), Guest Bootstrap (src/app/api/auth/guest/route.ts), *)
(* the root chat page (src/app/(chat)/page.tsx) and the Session Store they *)
(* call (better-auth, configured in src/lib/auth.ts), driven by HTTP       *)
(* clients that send a request and follow the redirects they receive.      *)
(*                                                                         *)
(* Strings the code inspects character by character (paths, URLs, header   *)
(* values) are sequences of one-character strings.  An optional value is a *)
(* sequence of length at most one: None, or Some(v).                       *)
(***************************************************************************)
EXTENDS Naturals, Sequences, FiniteSets, TLC

None == <<>>
Some(v) == <<v>>
IsSome(o) == o # <<>>
Get(o) == o[1]

\* F applied to the value of x (of x and y): the argument is evaluated
\* once, as a call of the code evaluates it.
Call1(F(_), x) == CHOOSE r \in {F(v) : v \in {x}} : TRUE
Call2(F(_, _), x, y) == CHOOSE r \in {F(v, w) : v \in {x}, w \in {y}} : TRUE

----------------------------------------------------------------------------
(* String literals of the source.                                          *)

RootPath == <<"/">>
PingPrefix == <<"/", "p", "i", "n", "g">>
ApiPrefix == <<"/", "a", "p", "i", "/">>
LoginPath == <<"/", "l", "o", "g", "i", "n">>
RegisterPath == <<"/", "r", "e", "g", "i", "s", "t", "e", "r">>
ChatPrefix == <<"/", "c", "h", "a", "t">>
GuestPath == <<"/", "a", "p", "i", "/", "a", "u", "t", "h", "/", "g", "u", "e", "s", "t">>
GuestRedirectPrefix == <<"/", "a", "p", "i", "/", "a", "u", "t", "h", "/", "g", "u", "e", "s", "t", "?", "r", "e", "d", "i", "r", "e", "c", "t", "U", "r", "l", "=">>
RedirectUrlKey == <<"r", "e", "d", "i", "r", "e", "c", "t", "U", "r", "l">>
SessionCookieName == "better-auth.session_token"
DefaultHost == <<"l", "o", "c", "a", "l", "h", "o", "s", "t", ":", "3", "0", "0", "1">>
Http == <<"h", "t", "t", "p">>
Https == <<"h", "t", "t", "p", "s">>
SchemeSep == <<":", "/", "/">>
MatcherExcluded ==
    { <<"_", "n", "e", "x", "t", "/", "s", "t", "a", "t", "i", "c">>,
      <<"_", "n", "e", "x", "t", "/", "i", "m", "a", "g", "e">>,
      <<"f", "a", "v", "i", "c", "o", "n", ".", "i", "c", "o">>,
      <<"s", "i", "t", "e", "m", "a", "p", ".", "x", "m", "l">>,
      <<"r", "o", "b", "o", "t", "s", ".", "t", "x", "t">> }

----------------------------------------------------------------------------
(* String operations of JavaScript used by the code.                       *)

StartsWith(s, p) == Len(p) <= Len(s) /\ SubSeq(s, 1, Len(p)) = p

Includes(s, p) ==
    \E i \in 1..(Len(s) + 1) :
        i + Len(p) - 1 <= Len(s) /\ SubSeq(s, i, i + Len(p) - 1) = p

\* Index of the first occurrence of character ch in s, 0 when there is none.
IndexOf(s, ch) ==
    IF \E i \in 1..Len(s) : s[i] = ch
    THEN CHOOSE i \in 1..Len(s) : s[i] = ch /\ \A j \in 1..(i - 1) : s[j] # ch
    ELSE 0

Drop(s, n) == SubSeq(s, n + 1, Len(s))
Take(s, n) == SubSeq(s, 1, n)

\* Characters encodeURIComponent leaves as they are (ECMA-262 uriUnreserved).
UriUnreserved ==
    { "a", "b", "c", "d", "e", "f", "g", "h", "i", "j", "k", "l", "m", "n", "o",
      "p", "q", "r", "s", "t", "u", "v", "w", "x", "y", "z",
      "A", "B", "D", "F", "U",
      "0", "1", "2", "3", "4", "5", "6", "7", "8", "9",
      "-", "_", ".", "!", "~", "*", "'", "(", ")" }

\* The escape of each other ASCII character of the model's alphabet.
PercentCode(ch) ==
    CASE ch = ":" -> <<"%", "3", "A">>
      [] ch = "/" -> <<"%", "2", "F">>
      [] ch = "?" -> <<"%", "3", "F">>
      [] ch = "=" -> <<"%", "3", "D">>
      [] ch = "&" -> <<"%", "2", "6">>
      [] ch = "%" -> <<"%", "2", "5">>
      [] ch = "+" -> <<"%", "2", "B">>
      [] ch = " " -> <<"%", "2", "0">>
      [] ch = "#" -> <<"%", "2", "3">>
      [] ch = "@" -> <<"%", "4", "0">>

Escapable == { ":", "/", "?", "=", "&", "%", "+", " ", "#", "@" }

\* The encoding of s from its i-th character on.
RECURSIVE EncodeFrom(_, _)
EncodeFrom(s, i) ==
    IF i > Len(s) THEN <<>>
    ELSE (IF s[i] \in UriUnreserved THEN <<s[i]>> ELSE PercentCode(s[i]))
         \o EncodeFrom(s, i + 1)

encodeURIComponent(s) == Call1(LAMBDA v : EncodeFrom(v, 1), s)

\* URLSearchParams decoding of a value: "+" is a space, a well-formed
\* escape is its character, anything else stays.
RECURSIVE DecodeFrom(_, _)
DecodeFrom(s, i) ==
    IF i > Len(s) THEN <<>>
    ELSE IF s[i] = "+" THEN <<" ">> \o DecodeFrom(s, i + 1)
    ELSE IF s[i] = "%" /\ i + 2 <= Len(s)
            /\ \E ch \in Escapable : PercentCode(ch) = SubSeq(s, i, i + 2)
         THEN <<CHOOSE ch \in Escapable : PercentCode(ch) = SubSeq(s, i, i + 2)>>
              \o DecodeFrom(s, i + 3)
    ELSE <<s[i]>> \o DecodeFrom(s, i + 1)

\* Reads the value as it is written, without decoding it.
FormDecode_Raw(s) == s

FormDecode(s) == Call1(LAMBDA v : DecodeFrom(v, 1), s)

\* searchParams.get(key) on a raw query string: the decoded value of the
\* first key=value pair named key, None when no pair has that name.
\* The end of the key=value pair that starts at from: the index of its
\* "&", or one past the end of the query.
PairEnd(query, from) ==
    IF \E i \in from..Len(query) : query[i] = "&"
    THEN CHOOSE i \in from..Len(query) :
            query[i] = "&" /\ \A j \in from..(i - 1) : query[j] # "&"
    ELSE Len(query) + 1

PairName(pair) ==
    FormDecode(IF IndexOf(pair, "=") = 0 THEN pair
               ELSE Take(pair, IndexOf(pair, "=") - 1))

PairValue(pair) ==
    FormDecode(IF IndexOf(pair, "=") = 0 THEN <<>>
               ELSE Drop(pair, IndexOf(pair, "=")))

RECURSIVE SearchParamsFrom(_, _, _)
SearchParamsFrom(query, from, key) ==
    IF from > Len(query) THEN None
    ELSE Call2(LAMBDA pair, next :
                    IF PairName(pair) = key THEN Some(PairValue(pair))
                    ELSE SearchParamsFrom(query, next, key),
               SubSeq(query, from, PairEnd(query, from) - 1),
               PairEnd(query, from) + 1)

SearchParamsGet(query, key) ==
    Call1(LAMBDA q : SearchParamsFrom(q, 1, key), query)

----------------------------------------------------------------------------
(* URLs: an origin (scheme://host), a path and an optional raw query.      *)

Origin(scheme, host) == scheme \o SchemeSep \o host

URL(origin, path, query) == [origin |-> origin, path |-> path, query |-> query]

\* request.url, url.href: the serialization.
Href(u) ==
    u.origin \o u.path \o (IF IsSome(u.query) THEN <<"?">> \o Get(u.query) ELSE <<>>)

SchemeOf(u) == Take(u.origin, IndexOf(u.origin, ":") - 1)
HostOf(u) == Drop(u.origin, IndexOf(u.origin, ":") + 2)

\* The path and query of the text that follows the authority.
PathQuery(origin, pq) ==
    LET q == IndexOf(pq, "?")
        p == IF q = 0 THEN pq ELSE Take(pq, q - 1)
    IN  URL(origin, IF p = <<>> THEN RootPath ELSE p,
            IF q = 0 THEN None ELSE Some(Drop(pq, q)))

\* The authority of the text that follows "//": a URL with an empty host
\* is a parse failure.
Authority(scheme, rest) ==
    LET slash == IndexOf(rest, "/")
        qm    == IndexOf(rest, "?")
        stop  == IF slash = 0 THEN qm
                 ELSE IF qm = 0 THEN slash
                 ELSE IF slash < qm THEN slash ELSE qm
        host  == IF stop = 0 THEN rest ELSE Take(rest, stop - 1)
        pq    == IF stop = 0 THEN <<>> ELSE Drop(rest, stop - 1)
    IN  IF host = <<>> THEN None ELSE Some(PathQuery(Origin(scheme, host), pq))

\* The directory of a path: the path up to and including its last "/".
DirOf(path) ==
    IF \E i \in 1..Len(path) : path[i] = "/"
    THEN Take(path, CHOOSE i \in 1..Len(path) :
                      path[i] = "/" /\ \A j \in (i + 1)..Len(path) : path[j] # "/")
    ELSE <<>>

\* The URL parser: the URL that input denotes relative to base, None
\* where input is no URL.
ParseURL(input, base) ==
    IF StartsWith(input, Http \o SchemeSep)
        THEN Authority(Http, Drop(input, Len(Http) + 3))
    ELSE IF StartsWith(input, Https \o SchemeSep)
        THEN Authority(Https, Drop(input, Len(Https) + 3))
    ELSE IF StartsWith(input, <<"/", "/">>)
        THEN Authority(SchemeOf(base), Drop(input, 2))
    ELSE IF StartsWith(input, <<"/">>)
        THEN Some(PathQuery(base.origin, input))
    ELSE IF StartsWith(input, <<"?">>)
        THEN Some(URL(base.origin, base.path, Some(Tail(input))))
    ELSE IF input = <<>>
        THEN Some(base)
    ELSE Some(PathQuery(base.origin, DirOf(base.path) \o input))

\* new URL(input, base): Some(url), or None where the constructor throws
\* a TypeError.
NewURL(input, base) == Call2(ParseURL, input, base)

----------------------------------------------------------------------------
(* Requests and responses.                                                 *)

\* A request: its URL, its cookies (name/value pairs), and the referer and
\* x-forwarded-proto headers, each optional.  The host header is the URL's.
Request(url, cookies, referer, xfp) ==
    [url |-> url, cookies |-> cookies, referer |-> referer, xfp |-> xfp]

\* request.cookies.get(name): the cookie of that name, None when absent.
CookiesGet(cookies, name) ==
    IF \E ck \in cookies : ck.name = name
    THEN Some(CHOOSE ck \in cookies : ck.name = name)
    ELSE None

Cookie(name, value) == [name |-> name, value |-> value]

\* What a handler returns.  kind is "next" (NextResponse.next(): the request
\* goes on to its route), "redirect" or "response"; branch names the return
\* statement that produced it.
Outcome(kind, status, location, setCookie, body, branch) ==
    [kind |-> kind, status |-> status, location |-> location,
     setCookie |-> setCookie, body |-> body, branch |-> branch]

NextResponseNext(branch) == Outcome("next", 0, None, None, "", branch)
NextResponseRedirect(url, branch) == Outcome("redirect", 307, Some(url), None, "", branch)
NoOutcome == Outcome("none", 0, None, None, "", "")

----------------------------------------------------------------------------
(* The Request Gate.                                                       *)

\* config.matcher: the paths the hosting runtime runs the gate on.
MatcherMatches(pathname) ==
    \/ pathname = RootPath
    \/ /\ StartsWith(pathname, ChatPrefix \o <<"/">>)
       /\ Len(pathname) > Len(ChatPrefix) + 1
       /\ IndexOf(Drop(pathname, Len(ChatPrefix) + 1), "/") = 0
    \/ pathname = Take(ApiPrefix, Len(ApiPrefix) - 1)
    \/ StartsWith(pathname, ApiPrefix)
    \/ pathname = LoginPath
    \/ pathname = RegisterPath
    \/ /\ StartsWith(pathname, <<"/">>)
       /\ \A x \in MatcherExcluded : ~StartsWith(Tail(pathname), x)

\* The protected set: the root and every path that starts with /chat.
IsProtected(pathname) == pathname = RootPath \/ StartsWith(pathname, ChatPrefix)

\* referer?.includes('/api/auth/guest')
RefererQualifies(referer) == IsSome(referer) /\ Includes(Get(referer), GuestPath)

\* Variants of the gate, each one plausible slip away from middleware:
\* the exemptions of API routes and auth pages (exempt), the test for the
\* session cookie (hasToken), the protected set (protected) and the value
\* written as redirectUrl (returnTo) are the caller's.
GateVariant(request, exempt, hasToken, protected, returnTo) ==
    LET pathname == request.url.path
    IN  IF StartsWith(pathname, PingPrefix)
            THEN Outcome("response", 200, None, None, "pong", "ping")
        ELSE IF exempt /\ StartsWith(pathname, ApiPrefix)
            THEN NextResponseNext("api")
        ELSE IF exempt /\ pathname \in {LoginPath, RegisterPath}
            THEN NextResponseNext("authPage")
        ELSE IF ~hasToken /\ protected
            THEN IF RefererQualifies(request.referer)
                 THEN NextResponseNext("referer")
                 ELSE NextResponseRedirect(
                        Get(NewURL(GuestRedirectPrefix \o returnTo, request.url)),
                        "guest")
        ELSE NextResponseNext("default")

HasSessionCookie(request) ==
    IsSome(CookiesGet(request.cookies, SessionCookieName))

\* Protects the root only.
middleware_RootOnly(request) ==
    GateVariant(request, TRUE, HasSessionCookie(request),
                request.url.path = RootPath,
                encodeURIComponent(Href(request.url)))

\* Writes the URL into the query as it is.
middleware_Unencoded(request) ==
    GateVariant(request, TRUE, HasSessionCookie(request),
                IsProtected(request.url.path), Href(request.url))

\* Takes a cookie with a falsy value for no cookie.
middleware_TruthyValue(request) ==
    GateVariant(request, TRUE,
                HasSessionCookie(request)
                  /\ Get(CookiesGet(request.cookies, SessionCookieName)).value # 0,
                IsProtected(request.url.path),
                encodeURIComponent(Href(request.url)))

\* Sends every cookie-less request to Guest Bootstrap.
middleware_NoExemptions(request) ==
    GateVariant(request, FALSE, HasSessionCookie(request), TRUE,
                encodeURIComponent(Href(request.url)))

\* Answers the referer-exempt request with a redirect to /login.
middleware_LoginFallback(request) ==
    LET out == GateVariant(request, TRUE, HasSessionCookie(request),
                           IsProtected(request.url.path),
                           encodeURIComponent(Href(request.url)))
    IN  IF out.branch = "referer"
        THEN NextResponseRedirect(Get(NewURL(LoginPath, request.url)), "referer")
        ELSE out

\* Takes a request whose URL has a query for one outside the protected set.
middleware_SkipsWithQuery(request) ==
    GateVariant(request, TRUE, HasSessionCookie(request),
                IsProtected(request.url.path) /\ ~IsSome(request.url.query),
                encodeURIComponent(Href(request.url)))

\* Gives the health-check answer only to a request with session cookie.
middleware_PingNeedsCookie(request) ==
    LET out == GateVariant(request, TRUE, HasSessionCookie(request),
                           IsProtected(request.url.path),
                           encodeURIComponent(Href(request.url)))
    IN  IF out.branch = "ping" /\ ~HasSessionCookie(request)
        THEN NextResponseNext("default")
        ELSE out

\* Has no referer exemption.
middleware_NoRefererExemption(request) ==
    LET out == GateVariant(request, TRUE, HasSessionCookie(request),
                           IsProtected(request.url.path),
                           encodeURIComponent(Href(request.url)))
    IN  IF out.branch = "referer"
        THEN NextResponseRedirect(
                Get(NewURL(GuestRedirectPrefix
                             \o encodeURIComponent(Href(request.url)),
                           request.url)),
                "guest")
        ELSE out

\* Exempts only a referer that is Guest Bootstrap on the request's origin.
middleware_RefererOwnOrigin(request) ==
    LET out == GateVariant(request, TRUE, HasSessionCookie(request),
                           IsProtected(request.url.path),
                           encodeURIComponent(Href(request.url)))
    IN  IF out.branch = "referer"
           /\ ~StartsWith(Get(request.referer), request.url.origin \o GuestPath)
        THEN NextResponseRedirect(
                Get(NewURL(GuestRedirectPrefix
                             \o encodeURIComponent(Href(request.url)),
                           request.url)),
                "guest")
        ELSE out

\* Protects every path but the exempt ones.
middleware_ProtectsAll(request) ==
    GateVariant(request, TRUE, HasSessionCookie(request), TRUE,
                encodeURIComponent(Href(request.url)))

\* middleware(request)
middleware(request) ==
    LET pathname == request.url.path
        sessionToken == CookiesGet(request.cookies, SessionCookieName)
    IN  IF StartsWith(pathname, PingPrefix)
            THEN Outcome("response", 200, None, None, "pong", "ping")
        ELSE IF StartsWith(pathname, ApiPrefix)
            THEN NextResponseNext("api")
        ELSE IF pathname \in {LoginPath, RegisterPath}
            THEN NextResponseNext("authPage")
        ELSE IF ~IsSome(sessionToken) /\ IsProtected(pathname)
            THEN IF RefererQualifies(request.referer)
                 THEN NextResponseNext("referer")
                 ELSE NextResponseRedirect(
                        Get(NewURL(GuestRedirectPrefix
                                     \o encodeURIComponent(Href(request.url)),
                                   request.url)),
                        "guest")
        ELSE NextResponseNext("default")

----------------------------------------------------------------------------
(* The Session Store.                                                      *)

\* Store capacity of the model: session tokens are 1..MaxSessions.
MaxSessions == 2
Tokens == 1..MaxSessions
\* A token no session ever has: the value of a stale or forged cookie.
StaleToken == 0

AnonymousUser == [type |-> "anonymous"]
RegularUser == [type |-> "regular"]

\* auth.api.getSession({headers}): the session of the request's session
\* cookie, None (null) when the cookie is absent or names no session.
getSession(store, request) ==
    LET ck == CookiesGet(request.cookies, SessionCookieName)
    IN  IF IsSome(ck) /\ Get(ck).value \in DOMAIN store
        THEN Some([user |-> store[Get(ck).value], token |-> Get(ck).value])
        ELSE None

\* Writes the new session over the sessions there are.
WithSession_Replaces(store, t, u) == [x \in {t} |-> u]

\* Adds no session for a user the store already has a session of.
WithSession_Reuses(store, t, u) ==
    IF \E x \in DOMAIN store : store[x] = u
    THEN store
    ELSE [x \in DOMAIN store \cup {t} |-> IF x = t THEN u ELSE store[x]]

\* The store with one more session, token t for user u.
WithSession(store, t, u) ==
    [x \in DOMAIN store \cup {t} |-> IF x = t THEN u ELSE store[x]]

WithoutSession(store, t) == [x \in DOMAIN store \ {t} |-> store[x]]

\* What auth.api.signInAnonymous({asResponse: true}) resolves to: a
\* Response with its ok flag and its set-cookie header.
StoreResponse(ok, setCookie) == [ok |-> ok, setCookie |-> setCookie]
SignInOk(t) == StoreResponse(TRUE, Some(Cookie(SessionCookieName, t)))
SignInNotOk == StoreResponse(FALSE, None)

----------------------------------------------------------------------------
(* Guest Bootstrap: GET /api/auth/guest.                                   *)

\* Defaults with ?? instead of ||: an empty redirectUrl stays empty.
RedirectUrlOf_Nullish(request) ==
    Call1(LAMBDA v : IF IsSome(v) THEN Get(v) ELSE RootPath,
          IF IsSome(request.url.query)
          THEN SearchParamsGet(Get(request.url.query), RedirectUrlKey)
          ELSE None)

\* searchParams.get('redirectUrl') || '/'
RedirectUrlOf(request) ==
    Call1(LAMBDA v : IF IsSome(v) /\ Get(v) # <<>> THEN Get(v) ELSE RootPath,
          IF IsSome(request.url.query)
          THEN SearchParamsGet(Get(request.url.query), RedirectUrlKey)
          ELSE None)

\* The catch block, and the not-ok return: a redirect to /login.
LoginRedirect(request, branch) ==
    NextResponseRedirect(Get(NewURL(LoginPath, request.url)), branch)

\* Variants of the two returns below.  Ignores redirectUrl:
GETExisting_Home(request) ==
    NextResponseRedirect(Get(NewURL(RootPath, request.url)), "existing")

\* Sends the caller's own session cookie again:
GETExisting_SetsCookie(request) ==
    LET target == NewURL(RedirectUrlOf(request), request.url)
    IN  IF IsSome(target)
        THEN [NextResponseRedirect(Get(target), "existing")
                EXCEPT !.setCookie = CookiesGet(request.cookies, SessionCookieName)]
        ELSE LoginRedirect(request, "error")

\* Does not test response.ok:
GETSignedIn_IgnoresOk(request, response) ==
    LET target == NewURL(RedirectUrlOf(request), request.url)
    IN  IF ~IsSome(target) THEN LoginRedirect(request, "error")
        ELSE [NextResponseRedirect(Get(target), "created")
                EXCEPT !.setCookie = response.setCookie]

\* Does not copy the set-cookie header:
GETSignedIn_DropsCookie(request, response) ==
    LET target == NewURL(RedirectUrlOf(request), request.url)
    IN  IF ~response.ok THEN LoginRedirect(request, "signInFailed")
        ELSE IF ~IsSome(target) THEN LoginRedirect(request, "error")
        ELSE NextResponseRedirect(Get(target), "created")

\* Redirects to redirectUrl only when it is of the request's origin, and
\* to "/" otherwise:
GETSignedIn_SameOriginOnly(request, response) ==
    LET target == NewURL(RedirectUrlOf(request), request.url)
    IN  IF ~response.ok THEN LoginRedirect(request, "signInFailed")
        ELSE IF ~IsSome(target) THEN LoginRedirect(request, "error")
        ELSE [NextResponseRedirect(
                    IF Get(target).origin = request.url.origin THEN Get(target)
                    ELSE URL(request.url.origin, RootPath, None),
                    "created")
                EXCEPT !.setCookie = response.setCookie]

\* The return of the already-authenticated path; new URL(redirectUrl,
\* request.url) throws inside the try block when redirectUrl is no URL.
GETExisting(request) ==
    LET target == NewURL(RedirectUrlOf(request), request.url)
    IN  IF IsSome(target)
        THEN NextResponseRedirect(Get(target), "existing")
        ELSE LoginRedirect(request, "error")

\* The rest of the handler once signInAnonymous has resolved to response.
GETSignedIn(request, response) ==
    LET target == NewURL(RedirectUrlOf(request), request.url)
    IN  IF ~response.ok THEN LoginRedirect(request, "signInFailed")
        ELSE IF ~IsSome(target) THEN LoginRedirect(request, "error")
        ELSE [NextResponseRedirect(Get(target), "created")
                EXCEPT !.setCookie = response.setCookie]

----------------------------------------------------------------------------
(* The root chat page.                                                     *)

\* Takes the presence of the session cookie for a session.
Page_TrustsCookie(request, session) ==
    IF ~IsSome(session) /\ ~HasSessionCookie(request)
    THEN LET host == IF HostOf(request.url) # <<>> THEN HostOf(request.url)
                     ELSE DefaultHost
             protocol == IF IsSome(request.xfp) THEN Get(request.xfp) ELSE Http
             currentUrl == protocol \o SchemeSep \o host \o <<"/">>
         IN  NextResponseRedirect(
                Get(NewURL(GuestRedirectPrefix \o encodeURIComponent(currentUrl),
                           request.url)),
                "pageGuest")
    ELSE Outcome("response", 200, None, None, "chat", "render")

\* Page(), given what getSession resolved to.
Page(request, session) ==
    IF ~IsSome(session)
    THEN LET host == IF HostOf(request.url) # <<>> THEN HostOf(request.url)
                     ELSE DefaultHost
             protocol == IF IsSome(request.xfp) THEN Get(request.xfp) ELSE Http
             currentUrl == protocol \o SchemeSep \o host \o <<"/">>
         IN  NextResponseRedirect(
                Get(NewURL(GuestRedirectPrefix \o encodeURIComponent(currentUrl),
                           request.url)),
                "pageGuest")
    ELSE Outcome("response", 200, None, None, "chat", "render")

\* A route whose handler is not among the sources modelled: it answers 200.
OtherRoute(request) == Outcome("response", 200, None, None, "other", "other")

ErrorResponse == Outcome("response", 500, None, None, "error", "pageError")

----------------------------------------------------------------------------
(* The state.                                                              *)

Clients == {"c1", "c2"}

VARIABLES
    pc,            \* per client: where its request is
    req,           \* per client: the request in flight
    resp,          \* per client: the response last returned to it
    jar,           \* per client: the session cookie it holds (optional token)
    storesCookie,  \* per client: whether a set-cookie it receives is visible
                   \*   to its next request
    refererMode,   \* per client: the referer of a followed redirect, "keep"
                   \*   (that of the request redirected) or "redirector" (the
                   \*   URL that answered with the redirect)
    first,         \* per client: the request it started with
    issued,        \* per client: the token of the last session created for it
    lastCall,      \* per client: how the last Session Store call made for it
                   \*   ended: "session", "nosession", "created", "notok",
                   \*   "throw", or "none" before any call
    sessions,      \* the Session Store: token -> user
    storeWorking   \* whether the Session Store answers every call

\* The client components of the sidebar, each with the state it keeps.
VARIABLES
    nav,           \* SidebarUserNav: session hook, click handler, effects
    hist,          \* SidebarHistory: cached pages, dialog, requests in flight
    grp            \* groupChatsByDate: its argument and its result

vars == <<pc, req, resp, jar, storesCookie, refererMode, first, issued,
          lastCall, sessions, storeWorking, nav, hist, grp>>

\* The state of the request flow, and that of the components.
FlowVars == <<pc, req, resp, jar, storesCookie, refererMode, first, issued,
              lastCall, sessions, storeWorking>>
ComponentVars == <<nav, hist, grp>>

\* The components before they are mounted.
NavUnmounted ==
    [mounted |-> FALSE, user |-> FALSE, isPending |-> FALSE, email |-> None,
     clicks |-> 0, toasts |-> 0, signOutCalls |-> 0, signingOut |-> 0,
     signedOut |-> 0, pushed |-> <<>>]
HistUnmounted ==
    [mounted |-> FALSE, user |-> FALSE, id |-> None, pages |-> <<>>,
     size |-> 1, isValidating |-> FALSE, building |-> <<>>, call |-> None,
     gone |-> {}, deleteId |-> None, showDeleteDialog |-> FALSE,
     deleting |-> <<>>, toasts |-> <<>>, pushed |-> <<>>]
GrpUnmounted ==
    [called |-> FALSE, chats |-> <<>>, now |-> 0, monthDays |-> 0,
     groups |-> [today |-> <<>>, yesterday |-> <<>>, lastWeek |-> <<>>,
                 lastMonth |-> <<>>, older |-> <<>>]]
ComponentsUnmounted ==
    nav = NavUnmounted /\ hist = HistUnmounted /\ grp = GrpUnmounted

AppHost == <<"a">>
OtherHost == <<"e">>
AppOrigins == {Origin(Http, AppHost), Origin(Https, AppHost)}

\* The x-forwarded-proto header the deployment's proxy adds: none in front
\* of plain http, "https" where it terminates TLS.
XfpFor(origin) == IF StartsWith(origin, Https) THEN Some(Https) ELSE None

JarCookies(j) == IF IsSome(j) THEN {Cookie(SessionCookieName, Get(j))} ELSE {}

\* Tokens some client still holds or is about to receive.
Referenced(t) ==
    \E c \in Clients :
        /\ pc[c] # "off"
        /\ \/ jar[c] = Some(t)
           \/ Cookie(SessionCookieName, t) \in req[c].cookies
           \/ /\ pc[c] = "received"
              /\ resp[c].setCookie = Some(Cookie(SessionCookieName, t))

FreshTokens == {t \in Tokens : t \notin DOMAIN sessions /\ ~Referenced(t)}

----------------------------------------------------------------------------
(* The requests a client starts with.                                      *)

ChatIdPath == <<"/", "c", "h", "a", "t", "/", "1">>
ChatsPath == <<"/", "c", "h", "a", "t", "s">>
ApiHistoryPath == <<"/", "a", "p", "i", "/", "h", "i", "s", "t", "o", "r", "y">>
ApiExactPath == <<"/", "a", "p", "i">>
DocsPath == <<"/", "d", "o", "c", "s">>
FaviconPath == <<"/", "f", "a", "v", "i", "c", "o", "n", ".", "i", "c", "o">>
PingPath == <<"/", "p", "i", "n", "g">>

\* Raw query strings: redirectUrl empty, a path, "//" (no URL), a URL of
\* another origin; and a query with "&", "=" and an escape in it.
QEmpty == <<"r", "e", "d", "i", "r", "e", "c", "t", "U", "r", "l", "=">>
QChat == <<"r", "e", "d", "i", "r", "e", "c", "t", "U", "r", "l", "=", "/", "c", "h", "a", "t", "/", "1">>
QInvalid == <<"r", "e", "d", "i", "r", "e", "c", "t", "U", "r", "l", "=", "%", "2", "F", "%", "2", "F">>
QOther == <<"r", "e", "d", "i", "r", "e", "c", "t", "U", "r", "l", "=", "h", "t", "t", "p", "%", "3", "A", "%", "2", "F", "%", "2", "F", "e", "%", "2", "F">>
QAmp == <<"q", "=", "1", "&", "r", "=", "%", "2", "F">>

\* Referer values: one that contains /api/auth/guest, one that does not.
RefGuest == <<"h", "t", "t", "p", ":", "/", "/", "e", "/", "a", "p", "i", "/", "a", "u", "t", "h", "/", "g", "u", "e", "s", "t">>
RefDocs == <<"h", "t", "t", "p", ":", "/", "/", "a", "/", "d", "o", "c", "s">>

InitPathQueries ==
    ({RootPath, ChatIdPath, ChatsPath, LoginPath, RegisterPath, ApiHistoryPath,
      ApiExactPath, DocsPath, FaviconPath, PingPath, GuestPath} \X {None})
    \cup {<<ChatIdPath, Some(QAmp)>>}
    \cup ({GuestPath} \X {Some(QEmpty), Some(QChat), Some(QInvalid), Some(QOther)})

InitRequests ==
    { Request(URL(o, pq[1], pq[2]), JarCookies(j), r, XfpFor(o)) :
        o \in AppOrigins, pq \in InitPathQueries,
        j \in {None, Some(StaleToken), Some(1)},
        r \in {None, Some(RefGuest), Some(RefDocs)} }

JarOf(request) ==
    LET ck == CookiesGet(request.cookies, SessionCookieName)
    IN  IF IsSome(ck) THEN Some(Get(ck).value) ELSE None

IdleRequest == Request(URL(Origin(Http, AppHost), RootPath, None), {}, None, None)

EmptyStore == [t \in {} |-> RegularUser]

Init ==
    /\ storeWorking \in BOOLEAN
    /\ sessions \in {EmptyStore, [t \in {1} |-> RegularUser]}
    /\ \E r \in InitRequests, sc \in BOOLEAN, rm \in {"keep", "redirector"} :
        /\ pc = [c \in Clients |-> IF c = "c1" THEN "sent" ELSE "off"]
        /\ req = [c \in Clients |-> IF c = "c1" THEN r ELSE IdleRequest]
        /\ first = [c \in Clients |-> IF c = "c1" THEN r ELSE IdleRequest]
        /\ jar = [c \in Clients |-> IF c = "c1" THEN JarOf(r) ELSE None]
        /\ storesCookie = [c \in Clients |-> IF c = "c1" THEN sc ELSE FALSE]
        /\ refererMode = [c \in Clients |-> IF c = "c1" THEN rm ELSE "keep"]
    /\ resp = [c \in Clients |-> NoOutcome]
    /\ issued = [c \in Clients |-> None]
    /\ lastCall = [c \in Clients |-> "none"]
    /\ ComponentsUnmounted

----------------------------------------------------------------------------
(* The steps.                                                              *)

\* A gate that keeps its last decision in a variable of the module and
\* lets a request through while another request is being passed.
Gate_SharedDecision(c) ==
    /\ pc[c] = "sent"
    /\ LET own == IF MatcherMatches(req[c].url.path)
                  THEN middleware(req[c])
                  ELSE NextResponseNext("unmatched")
           out == IF \E d \in Clients \ {c} : pc[d] = "routed"
                  THEN NextResponseNext("default")
                  ELSE own
       IN  IF out.kind = "next"
           THEN /\ pc' = [pc EXCEPT ![c] = "routed"]
                /\ resp' = [resp EXCEPT ![c] = out]
           ELSE /\ pc' = [pc EXCEPT ![c] = "received"]
                /\ resp' = [resp EXCEPT ![c] = out]
    /\ UNCHANGED <<req, jar, storesCookie, refererMode, first, issued,
                   lastCall, sessions, storeWorking>>
    /\ UNCHANGED ComponentVars

\* The hosting runtime runs the gate on a request whose path the matcher
\* matches, and routes the request when the gate lets it through.
Gate(c) ==
    /\ pc[c] = "sent"
    /\ LET out == IF MatcherMatches(req[c].url.path)
                  THEN middleware(req[c])
                  ELSE NextResponseNext("unmatched")
       IN  IF out.kind = "next"
           THEN /\ pc' = [pc EXCEPT ![c] = "routed"]
                /\ resp' = [resp EXCEPT ![c] = out]
           ELSE /\ pc' = [pc EXCEPT ![c] = "received"]
                /\ resp' = [resp EXCEPT ![c] = out]
    /\ UNCHANGED <<req, jar, storesCookie, refererMode, first, issued,
                   lastCall, sessions, storeWorking>>
    /\ UNCHANGED ComponentVars

\* What a call of the Session Store may do: a working store answers; any
\* other may also throw, and its sign-in may also answer not-ok.
LookupResults == IF storeWorking THEN {"ok"} ELSE {"ok", "throw"}
SignInResults == IF storeWorking THEN {"ok"} ELSE {"ok", "notok", "throw"}

\* GET, up to the answer of getSession.
GuestLookup(c) ==
    /\ pc[c] = "routed"
    /\ req[c].url.path = GuestPath
    /\ \E result \in LookupResults :
        LET session == getSession(sessions, req[c])
        IN  IF result = "throw"
            THEN /\ pc' = [pc EXCEPT ![c] = "received"]
                 /\ resp' = [resp EXCEPT ![c] = LoginRedirect(req[c], "error")]
                 /\ lastCall' = [lastCall EXCEPT ![c] = "throw"]
            ELSE IF IsSome(session)
            THEN /\ pc' = [pc EXCEPT ![c] = "received"]
                 /\ resp' = [resp EXCEPT ![c] = GETExisting(req[c])]
                 /\ lastCall' = [lastCall EXCEPT ![c] = "session"]
            ELSE /\ pc' = [pc EXCEPT ![c] = "signIn"]
                 /\ resp' = resp
                 /\ lastCall' = [lastCall EXCEPT ![c] = "nosession"]
    /\ UNCHANGED <<req, jar, storesCookie, refererMode, first, issued,
                   sessions, storeWorking>>
    /\ UNCHANGED ComponentVars

\* GET, from the call of signInAnonymous to the return.
GuestSignIn(c) ==
    /\ pc[c] = "signIn"
    /\ \E result \in SignInResults :
        /\ result = "ok" => FreshTokens # {}
        /\ LET t == CHOOSE x \in FreshTokens : \A y \in FreshTokens : x <= y
           IN  IF result = "ok"
               THEN /\ sessions' = WithSession(sessions, t, AnonymousUser)
                    /\ issued' = [issued EXCEPT ![c] = Some(t)]
                    /\ resp' = [resp EXCEPT ![c] = GETSignedIn(req[c], SignInOk(t))]
                    /\ lastCall' = [lastCall EXCEPT ![c] = "created"]
               ELSE IF result = "notok"
               THEN /\ resp' = [resp EXCEPT ![c] = GETSignedIn(req[c], SignInNotOk)]
                    /\ lastCall' = [lastCall EXCEPT ![c] = "notok"]
                    /\ UNCHANGED <<sessions, issued>>
               ELSE /\ resp' = [resp EXCEPT ![c] = LoginRedirect(req[c], "error")]
                    /\ lastCall' = [lastCall EXCEPT ![c] = "throw"]
                    /\ UNCHANGED <<sessions, issued>>
    /\ pc' = [pc EXCEPT ![c] = "received"]
    /\ UNCHANGED <<req, jar, storesCookie, refererMode, first, storeWorking>>
    /\ UNCHANGED ComponentVars

\* The root page: getSession, then Page; a throw of getSession is the
\* framework's error response.
RootPage(c) ==
    /\ pc[c] = "routed"
    /\ req[c].url.path = RootPath
    /\ \E result \in LookupResults :
        LET session == getSession(sessions, req[c])
        IN  /\ resp' = [resp EXCEPT ![c] =
                    IF result = "throw" THEN ErrorResponse
                    ELSE Page(req[c], session)]
            /\ lastCall' = [lastCall EXCEPT ![c] =
                    IF result = "throw" THEN "throw"
                    ELSE IF IsSome(session) THEN "session" ELSE "nosession"]
    /\ pc' = [pc EXCEPT ![c] = "received"]
    /\ UNCHANGED <<req, jar, storesCookie, refererMode, first, issued,
                   sessions, storeWorking>>
    /\ UNCHANGED ComponentVars

\* Every other route.
Route(c) ==
    /\ pc[c] = "routed"
    /\ req[c].url.path \notin {GuestPath, RootPath}
    /\ resp' = [resp EXCEPT ![c] = OtherRoute(req[c])]
    /\ pc' = [pc EXCEPT ![c] = "received"]
    /\ UNCHANGED <<req, jar, storesCookie, refererMode, first, issued,
                   lastCall, sessions, storeWorking>>
    /\ UNCHANGED ComponentVars

\* The client takes the response: it keeps the cookie if set-cookie is
\* visible to it, and follows a redirect with a new request.
Receive(c) ==
    /\ pc[c] = "received"
    /\ LET r == resp[c]
           j == IF storesCookie[c] /\ IsSome(r.setCookie)
                THEN Some(Get(r.setCookie).value) ELSE jar[c]
           referer == IF refererMode[c] = "redirector"
                      THEN Some(Href(req[c].url)) ELSE req[c].referer
       IN  /\ jar' = [jar EXCEPT ![c] = j]
           /\ IF ~IsSome(r.location)
              THEN /\ pc' = [pc EXCEPT ![c] = "served"]
                   /\ req' = req
              ELSE IF Get(r.location).origin \in AppOrigins
              THEN /\ pc' = [pc EXCEPT ![c] = "sent"]
                   /\ req' = [req EXCEPT ![c] =
                        Request(Get(r.location), JarCookies(j), referer,
                                XfpFor(Get(r.location).origin))]
              ELSE /\ pc' = [pc EXCEPT ![c] = "external"]
                   /\ req' = [req EXCEPT ![c] =
                        Request(Get(r.location), {}, referer, None)]
    /\ UNCHANGED <<resp, storesCookie, refererMode, first, issued, lastCall,
                   sessions, storeWorking>>
    /\ UNCHANGED ComponentVars

\* The Session Store drops a session no client holds (session.expiresIn).
StoreExpire(t) ==
    /\ t \in DOMAIN sessions
    /\ ~Referenced(t)
    /\ sessions' = WithoutSession(sessions, t)
    /\ UNCHANGED <<pc, req, resp, jar, storesCookie, refererMode, first, issued,
                   lastCall, storeWorking>>
    /\ UNCHANGED ComponentVars

Step(c) ==
    \/ Gate(c)
    \/ GuestLookup(c)
    \/ GuestSignIn(c)
    \/ RootPage(c)
    \/ Route(c)
    \/ Receive(c)

Next == (\E c \in Clients : Step(c)) \/ (\E t \in Tokens : StoreExpire(t))

Spec == Init /\ [][Next]_vars

\* Every request in flight is eventually handled and every response
\* eventually taken by its client; unheld sessions eventually expire.
FairSpec ==
    /\ Spec
    /\ \A c \in Clients : WF_vars(Step(c))
    /\ \A t \in Tokens : WF_vars(StoreExpire(t))

----------------------------------------------------------------------------
(* Properties of the Request Gate.                                         *)

\* The gate has just decided client c's request: the request was let
\* through to its route, or the gate's own response is on its way back.
GateDecided(c) ==
    \/ pc[c] = "routed"
    \/ pc[c] = "received" /\ resp[c].branch \in {"guest", "ping"}

\* The response is a redirect to Guest Bootstrap on the request's origin.
RedirectsToGuest(c) ==
    /\ resp[c].kind = "redirect"
    /\ IsSome(resp[c].location)
    /\ Get(resp[c].location).origin = req[c].url.origin
    /\ Get(resp[c].location).path = GuestPath

\* The request lacks both the session cookie and a qualifying referer.
Unexempted(c) ==
    /\ ~HasSessionCookie(req[c])
    /\ ~(IsSome(req[c].referer) /\ Includes(Get(req[c].referer), GuestPath))

\* C1: a request for a protected path ("/" or a path that starts with
\* "/chat") is let through by the gate only if it carries the session
\* cookie or its referer contains /api/auth/guest; in every other case the
\* gate's outcome is the redirect to Guest Bootstrap.
C1_ProtectedNeverServedUnexempted ==
    \A c \in Clients :
        (GateDecided(c) /\ IsProtected(req[c].url.path) /\ Unexempted(c))
            => (pc[c] = "received" /\ RedirectsToGuest(c))

C1_Witness ==
    \E c \in Clients :
        /\ GateDecided(c) /\ Unexempted(c)
        /\ StartsWith(req[c].url.path, ChatPrefix)
        /\ pc[c] = "received" /\ RedirectsToGuest(c)

\* The raw value of the redirectUrl parameter of the response's location.
RawRedirectUrl(c) == Drop(Get(Get(resp[c].location).query), Len(RedirectUrlKey) + 1)

\* C2: for a protected path with no session cookie and no qualifying
\* referer the gate redirects to /api/auth/guest with the query
\* redirectUrl=<v>, v the percent-encoding of the whole request URL: v has
\* no URL delimiter left in it and is encodeURIComponent(request.url).
C2_RedirectUrlIsEncodedRequestUrl ==
    \A c \in Clients :
        (GateDecided(c) /\ IsProtected(req[c].url.path) /\ Unexempted(c))
            => /\ RedirectsToGuest(c)
               /\ IsSome(Get(resp[c].location).query)
               /\ Take(Get(Get(resp[c].location).query), Len(RedirectUrlKey) + 1)
                    = RedirectUrlKey \o <<"=">>
               /\ RawRedirectUrl(c) = encodeURIComponent(Href(req[c].url))
               /\ \A i \in 1..Len(RawRedirectUrl(c)) :
                    RawRedirectUrl(c)[i] \notin {":", "/", "?", "&", "=", "#"}

C2_Witness ==
    \E c \in Clients :
        /\ GateDecided(c) /\ Unexempted(c) /\ RedirectsToGuest(c)
        /\ req[c].url.path = ChatIdPath
        /\ req[c].url.query = Some(QAmp)

\* C3: a request for a protected path that carries the session cookie is
\* let through, whatever the cookie's value and whether or not the Session
\* Store has a session for it.
C3_CookiePresencePasses ==
    \A c \in Clients :
        (GateDecided(c) /\ IsProtected(req[c].url.path) /\ HasSessionCookie(req[c]))
            => (pc[c] = "routed" /\ resp[c].kind = "next")

C3_Witness ==
    \E c \in Clients :
        /\ GateDecided(c) /\ IsProtected(req[c].url.path)
        /\ HasSessionCookie(req[c])
        /\ ~IsSome(getSession(sessions, req[c]))
        /\ ~RefererQualifies(req[c].referer)
        /\ pc[c] = "routed"

\* C4: a request for a path that starts with /api/, for /login, for
\* /register or for a static asset is let through for every combination of
\* cookie and referer; the gate never redirects it.
C4_UnprotectedAlwaysPass ==
    \A c \in Clients :
        (/\ GateDecided(c)
         /\ \/ StartsWith(req[c].url.path, ApiPrefix)
            \/ req[c].url.path \in {LoginPath, RegisterPath, FaviconPath})
            => (pc[c] = "routed" /\ resp[c].kind = "next")

C4_Witness ==
    \E c \in Clients :
        /\ GateDecided(c) /\ Unexempted(c)
        /\ req[c].url.path = LoginPath
        /\ pc[c] = "routed"

----------------------------------------------------------------------------
(* Properties of Guest Bootstrap.                                          *)

\* Guest Bootstrap has answered client c's request.
BootstrapAnswered(c) == pc[c] = "received" /\ req[c].url.path = GuestPath

\* redirectUrl (or "/" when it is absent or empty) resolved against the
\* request URL; None when it is no URL.
Target(request) == NewURL(RedirectUrlOf(request), request.url)

LoginUrl(request) == URL(request.url.origin, LoginPath, None)

\* C5: called with no existing session and a sign-in that succeeds, Guest
\* Bootstrap answers with a redirect to redirectUrl that carries the
\* set-cookie header of the Session Store's response; and the gate lets a
\* protected-path request bearing that cookie through.
C5_SignInRedirectsWithCookie ==
    \A c \in Clients :
        /\ (BootstrapAnswered(c) /\ lastCall[c] = "created")
            => /\ resp[c].kind = "redirect"
               /\ resp[c].location = Target(req[c])
               /\ resp[c].setCookie = Some(Cookie(SessionCookieName, Get(issued[c])))
        /\ (/\ GateDecided(c) /\ IsProtected(req[c].url.path) /\ IsSome(issued[c])
            /\ Cookie(SessionCookieName, Get(issued[c])) \in req[c].cookies)
            => pc[c] = "routed"

\* C5, where redirectUrl resolves to a URL: the claim holds there.
C5_HoldsForResolvableTarget ==
    \A c \in Clients :
        /\ (BootstrapAnswered(c) /\ lastCall[c] = "created" /\ IsSome(Target(req[c])))
            => /\ resp[c].kind = "redirect"
               /\ resp[c].location = Target(req[c])
               /\ resp[c].setCookie = Some(Cookie(SessionCookieName, Get(issued[c])))
        /\ (/\ GateDecided(c) /\ IsProtected(req[c].url.path) /\ IsSome(issued[c])
            /\ Cookie(SessionCookieName, Get(issued[c])) \in req[c].cookies)
            => pc[c] = "routed"

\* Where C5 fails: the sign-in has created a session, and the answer is the
\* redirect to /login without the session's cookie.
C5_SessionWithoutCookie ==
    \E c \in Clients :
        /\ BootstrapAnswered(c) /\ lastCall[c] = "created"
        /\ IsSome(issued[c]) /\ Get(issued[c]) \in DOMAIN sessions
        /\ ~IsSome(Target(req[c]))
        /\ resp[c].location = Some(LoginUrl(req[c]))
        /\ resp[c].setCookie = None

\* Client c's step is Guest Bootstrap answering a caller whose headers the
\* Session Store resolves to a session.
AnswersExisting(c) ==
    /\ pc[c] = "routed" /\ req[c].url.path = GuestPath
    /\ pc'[c] = "received" /\ lastCall'[c] = "session"

C7_StoreFailureRedirectsToLogin ==
    \A c \in Clients :
        (BootstrapAnswered(c) /\ lastCall[c] \in {"throw", "notok"})
            => /\ resp[c].kind = "redirect"
               /\ resp[c].location = Some(LoginUrl(req[c]))
               /\ resp[c].setCookie = None

C7_Witness ==
    \E c \in Clients :
        /\ BootstrapAnswered(c) /\ lastCall[c] = "notok"
        /\ req[c].url.query = Some(QChat)
        /\ Get(resp[c].location).path = LoginPath

\* C8: every response of Guest Bootstrap is a redirect, to redirectUrl, to
\* "/" when redirectUrl is absent, or to /login; it carries a set-cookie
\* header only where a new anonymous session was created and the redirect
\* goes to redirectUrl.
C8_AlwaysRedirectCookieOnlyOnSuccess ==
    \A c \in Clients :
        BootstrapAnswered(c)
            => /\ resp[c].kind = "redirect"
               /\ resp[c].status = 307
               /\ \/ resp[c].location = Some(LoginUrl(req[c]))
                  \/ /\ IsSome(Target(req[c]))
                     /\ resp[c].location = Target(req[c])
               /\ IsSome(resp[c].setCookie)
                    => /\ lastCall[c] = "created"
                       /\ resp[c].location = Target(req[c])

C8_Witness ==
    \E c \in Clients :
        /\ BootstrapAnswered(c) /\ IsSome(resp[c].setCookie)
        /\ ~IsSome(req[c].url.query)
        /\ resp[c].location = Some(URL(req[c].url.origin, RootPath, None))

----------------------------------------------------------------------------
(* Properties of the whole flow: gate, Guest Bootstrap, page, client.      *)

\* Client c started without a session cookie on a protected path.
StartedCookieless(c) ==
    /\ pc[c] # "off"
    /\ ~HasSessionCookie(first[c])
    /\ IsProtected(first[c].url.path)

\* Client c has been served a page (no redirect is left to follow).
Served(c) == pc[c] = "served"

\* C9: a client that starts without cookie on a protected path, keeps the
\* cookies it is sent and follows redirects is, with a working Session
\* Store, eventually served the URL it asked for while holding a session
\* of the store (so neither /login nor the bootstrap endpoint).  The flow
\* meant is the one through Guest Bootstrap: the root, whose page sends a
\* caller without session there, or a request the gate redirects.
C9_CooklessCallerEndsServedWithSession ==
    \A c \in Clients :
        (/\ StartedCookieless(c) /\ storeWorking /\ storesCookie[c]
         /\ \/ first[c].url.path = RootPath
            \/ ~RefererQualifies(first[c].referer))
        ~> (/\ Served(c)
            /\ req[c].url = first[c].url
            /\ resp[c].status = 200
            /\ IsSome(jar[c]) /\ jar[c] = issued[c]
            /\ IsSome(getSession(sessions, req[c])))

C9_Witness ==
    \E c \in Clients :
        /\ StartedCookieless(c) /\ storeWorking /\ storesCookie[c]
        /\ first[c].url.path = ChatIdPath
        /\ ~RefererQualifies(first[c].referer)
        /\ Served(c) /\ req[c].url = first[c].url
        /\ IsSome(jar[c]) /\ jar[c] = issued[c]
        /\ IsSome(getSession(sessions, req[c]))

\* C10: when the cookie Guest Bootstrap sets is not visible to the next
\* request, the chain of redirects that starts at a cookie-less request
\* for a protected path is finite and ends in a served response; and the
\* gate never redirects a request addressed to /api/auth/guest.
C10_RedirectChainEnds ==
    /\ \A c \in Clients :
        (StartedCookieless(c) /\ ~storesCookie[c])
            ~> (Served(c) \/ pc[c] = "external")
    /\ [](\A c \in Clients :
            (GateDecided(c) /\ req[c].url.path = GuestPath) => pc[c] = "routed")

\* A second round of the cycle: a session has been created for the client,
\* its cookie did not reach the next request, and the client is sent to
\* Guest Bootstrap again.
C10_SentToBootstrapAgain ==
    \E c \in Clients :
        /\ StartedCookieless(c) /\ ~storesCookie[c]
        /\ IsSome(issued[c])
        /\ pc[c] = "received" /\ resp[c].branch \in {"guest", "pageGuest"}
        /\ RedirectsToGuest(c)

\* The second half of C10 alone.
C10_GateNeverRedirectsBootstrap ==
    \A c \in Clients :
        (GateDecided(c) /\ req[c].url.path = GuestPath) => pc[c] = "routed"

----------------------------------------------------------------------------
(* The gate as a decision function.                                        *)

\* The return statements of the routes, as opposed to those of the gate.
RouteBranches ==
    {"existing", "error", "signInFailed", "created", "pageGuest", "render",
     "other", "pageError"}

\* The gate has been evaluated on client c's request, and its outcome is
\* what the client's state shows.
GateEvaluated(c) ==
    /\ MatcherMatches(req[c].url.path)
    /\ \/ pc[c] = "routed"
       \/ pc[c] = "received" /\ resp[c].branch \notin RouteBranches

\* The three outcomes: pass through, redirect to Guest Bootstrap with the
\* request URL as return target, redirect to /login, the fixed response.
PassesThrough(c) == pc[c] = "routed" /\ resp[c].kind = "next"

RedirectsToGuestWithReturn(c) ==
    /\ pc[c] = "received" /\ RedirectsToGuest(c)
    /\ Get(resp[c].location).query
         = Some(RedirectUrlKey \o <<"=">> \o encodeURIComponent(Href(req[c].url)))

RedirectsToLogin(c) ==
    /\ pc[c] = "received" /\ resp[c].kind = "redirect"
    /\ resp[c].location = Some(LoginUrl(req[c]))

AnswersPong(c) ==
    /\ pc[c] = "received" /\ resp[c].kind = "response"
    /\ resp[c].status = 200 /\ resp[c].body = "pong"
    /\ resp[c].location = None /\ resp[c].setCookie = None

\* C11 as stated: every gate evaluation ends in a pass-through, in the
\* redirect to Guest Bootstrap with the original URL as return target, or,
\* for a protected path with no session, in a redirect to /login.
C11_OneOfThreeOutcomes ==
    \A c \in Clients :
        GateEvaluated(c)
            => \/ PassesThrough(c)
               \/ RedirectsToGuestWithReturn(c)
               \/ /\ RedirectsToLogin(c)
                  /\ IsProtected(req[c].url.path) /\ ~HasSessionCookie(req[c])

\* C11, amended: every gate evaluation ends, without an exception (the URL
\* of its redirect always parses), in exactly one of a pass-through, the
\* redirect to Guest Bootstrap with the original URL as return target, or
\* the fixed 200 "pong" response, the last for the paths that start with
\* /ping and only for them; the gate never redirects to /login.
C11_OneOfDefinedOutcomes ==
    \A c \in Clients :
        GateEvaluated(c)
            => /\ IsProtected(req[c].url.path)
                    => IsSome(NewURL(GuestRedirectPrefix
                                       \o encodeURIComponent(Href(req[c].url)),
                                     req[c].url))
               /\ \/ PassesThrough(c)
                  \/ RedirectsToGuestWithReturn(c)
                  \/ AnswersPong(c)
               /\ AnswersPong(c) <=> StartsWith(req[c].url.path, PingPrefix)
               /\ ~RedirectsToLogin(c)

C11_Witness ==
    \E c \in Clients :
        /\ GateEvaluated(c) /\ AnswersPong(c)
        /\ req[c].url.path = PingPath
        /\ ~HasSessionCookie(req[c]) /\ req[c].referer = None

----------------------------------------------------------------------------
(* Two clients at once.                                                    *)

ConcPathQueries ==
    { <<RootPath, None>>, <<ChatIdPath, None>>, <<ChatIdPath, Some(QAmp)>>,
      <<PingPath, None>>, <<GuestPath, None>>, <<GuestPath, Some(QChat)>> }

ConcRequests ==
    { Request(URL(Origin(Http, AppHost), pq[1], pq[2]), JarCookies(j), r, None) :
        pq \in ConcPathQueries,
        j \in {None, Some(StaleToken), Some(1)},
        r \in {None, Some(RefGuest)} }

\* Both clients have a request in flight; the first keeps the cookies it is
\* sent, the second does not and starts without referer.  The store holds
\* one session of a registered user, which expires once no client holds its
\* cookie.
ConcInit ==
    /\ storeWorking \in BOOLEAN
    /\ sessions = [t \in {1} |-> RegularUser]
    /\ \E r1 \in ConcRequests, r2 \in {r \in ConcRequests : r.referer = None} :
        /\ req = [c \in Clients |-> IF c = "c1" THEN r1 ELSE r2]
        /\ first = [c \in Clients |-> IF c = "c1" THEN r1 ELSE r2]
        /\ jar = [c \in Clients |-> IF c = "c1" THEN JarOf(r1) ELSE JarOf(r2)]
    /\ pc = [c \in Clients |-> "sent"]
    /\ storesCookie = [c \in Clients |-> c = "c1"]
    /\ refererMode = [c \in Clients |-> "keep"]
    /\ resp = [c \in Clients |-> NoOutcome]
    /\ issued = [c \in Clients |-> None]
    /\ lastCall = [c \in Clients |-> "none"]
    /\ ComponentsUnmounted

ConcSpec == ConcInit /\ [][Next]_vars

\* The kind of a gate outcome: what is returned, apart from the return
\* target written into a redirect.
OutcomeKind(c) ==
    [kind |-> resp[c].kind, status |-> resp[c].status, body |-> resp[c].body,
     setCookie |-> resp[c].setCookie,
     to |-> IF IsSome(resp[c].location)
            THEN Some(Get(resp[c].location).path) ELSE None,
     through |-> pc[c] = "routed"]

\* The gate's inputs: path, presence of the session cookie, referer.
GateInputs(c) ==
    <<req[c].url.path, HasSessionCookie(req[c]), req[c].referer>>

\* Client c's step is the gate's evaluation of its request.
GateStep(c) == pc[c] = "sent" /\ pc'[c] # "sent"

\* C12: two requests that agree on path, presence of the session cookie and
\* referer get the same outcome from the gate (and the same response
\* outright when their URLs agree, the return target being the URL), however
\* the other requests and the Session Store stand; and an evaluation of the
\* gate changes nothing but the request's own progress: the store and the
\* other client are as before.
C12_GateIsPureDecision ==
    /\ [](\A c, d \in Clients :
            (GateEvaluated(c) /\ GateEvaluated(d) /\ GateInputs(c) = GateInputs(d))
                => /\ OutcomeKind(c) = OutcomeKind(d)
                   /\ RedirectsToGuest(c)
                        => RedirectsToGuestWithReturn(c) /\ RedirectsToGuestWithReturn(d)
                   /\ req[c].url = req[d].url => resp[c] = resp[d])
    /\ [][\A c \in Clients :
            GateStep(c)
                => /\ sessions' = sessions /\ storeWorking' = storeWorking
                   /\ req' = req /\ jar' = jar /\ issued' = issued
                   /\ lastCall' = lastCall
                   /\ \A d \in Clients \ {c} : pc'[d] = pc[d] /\ resp'[d] = resp[d]]_vars

\* Two requests for the same path, one with a stale cookie and one with the
\* cookie of a session, decided with different contents of the store and
\* with different queries.
C12_Witness ==
    /\ GateEvaluated("c1") /\ GateEvaluated("c2")
    /\ GateInputs("c1") = GateInputs("c2")
    /\ req["c1"].url.path = ChatIdPath
    /\ req["c1"].url # req["c2"].url
    /\ RedirectsToGuest("c1") /\ RedirectsToGuest("c2")
    /\ IsSome(issued["c2"])

----------------------------------------------------------------------------
(* The gate's short-circuits.                                              *)

\* C13: for a path that starts with /ping the gate answers with the fixed
\* response, status 200 and body "pong", whatever cookie and referer the
\* request has; the request is neither redirected nor passed on.
C13_PingShortCircuits ==
    \A c \in Clients :
        (GateEvaluated(c) /\ StartsWith(req[c].url.path, PingPrefix))
            => /\ pc[c] = "received"
               /\ resp[c].kind = "response"
               /\ resp[c].status = 200 /\ resp[c].body = "pong"
               /\ resp[c].location = None
               /\ resp[c].branch = "ping"

C13_Witness ==
    \E c \in Clients :
        /\ GateEvaluated(c) /\ req[c].url.path = PingPath
        /\ HasSessionCookie(req[c]) /\ RefererQualifies(req[c].referer)
        /\ resp[c].status = 200 /\ resp[c].body = "pong"

\* C14: a request for a protected path without session cookie whose
\* referer contains /api/auth/guest is passed through, not redirected to
\* Guest Bootstrap.
C14_RefererExemptionPasses ==
    \A c \in Clients :
        (/\ GateEvaluated(c) /\ IsProtected(req[c].url.path)
         /\ ~HasSessionCookie(req[c]) /\ RefererQualifies(req[c].referer))
            => /\ PassesThrough(c)
               /\ resp[c].branch = "referer"
               /\ resp[c].location = None

C14_Witness ==
    \E c \in Clients :
        /\ GateEvaluated(c) /\ req[c].url.path = ChatIdPath
        /\ ~HasSessionCookie(req[c]) /\ req[c].referer = Some(RefGuest)
        /\ PassesThrough(c)

----------------------------------------------------------------------------
(* Guest Bootstrap: the default target.                                    *)

\* C15: when the redirectUrl parameter is absent or empty, Guest Bootstrap
\* redirects to "/" on the request's origin, on the already-authenticated
\* path and after a successful sign-in alike.
C15_DefaultsToRoot ==
    \A c \in Clients :
        (/\ BootstrapAnswered(c) /\ lastCall[c] \in {"session", "created"}
         /\ req[c].url.query \in {None, Some(QEmpty)})
            => /\ resp[c].kind = "redirect"
               /\ resp[c].location = Some(URL(req[c].url.origin, RootPath, None))
               /\ RedirectUrlOf(req[c]) = RootPath

C15_Witness ==
    \E c \in Clients :
        /\ BootstrapAnswered(c) /\ lastCall[c] = "session"
        /\ req[c].url.query = Some(QEmpty)
        /\ resp[c].location = Some(URL(req[c].url.origin, RootPath, None))

----------------------------------------------------------------------------
(* The user type shown to the client.                                      *)

\* emailDomainName of the anonymous plugin.
AnonymousEmailDomain ==
    <<"a", "n", "o", "n", "y", "m", "o", "u", "s", ".", "l", "o", "c", "a", "l">>

\* Local parts the plugin may give the e-mail address of the user it
\* creates; which one is the plugin's choice.
AnonymousLocals ==
    { <<"t", "e", "m", "p", "-", "1">>, <<"g", "u", "e", "s", "t", "-", "1">>,
      <<"1", "7">> }

AnonymousEmails == { l \o <<"@">> \o AnonymousEmailDomain : l \in AnonymousLocals }

\* E-mail addresses of sign-up with e-mail and password.
RegisteredEmails == { <<"u", "@", "x", ".", "y">>, <<"g", "u", "e", "s", "t", "-", "1", "@", "x", ".", "y">> }

\* The e-mail addresses a user of the store may have.
EmailsOf(user) ==
    IF user = AnonymousUser THEN AnonymousEmails ELSE RegisteredEmails

Digits == {"0", "1", "2", "3", "4", "5", "6", "7", "8", "9"}

GuestEmailPrefix == <<"g", "u", "e", "s", "t", "-">>

\* /^guest-\d+$/.test(email)
IsGuestEmail(email) ==
    /\ StartsWith(email, GuestEmailPrefix)
    /\ Len(email) > Len(GuestEmailPrefix)
    /\ \A i \in (Len(GuestEmailPrefix) + 1)..Len(email) : email[i] \in Digits

\* useSessionWithType: the type it reports for a session whose user has
\* this e-mail address (an absent address is the empty one).
UserTypeOf(email) ==
    IF email # <<>> /\ IsGuestEmail(email) THEN "guest" ELSE "regular"

\* The user of the session last created for client c is in the store.
CreatedFor(c) == IsSome(issued[c]) /\ Get(issued[c]) \in DOMAIN sessions

\* C16: every user Guest Bootstrap has created is reported as "guest" by
\* useSessionWithType, its e-mail address matching guest-<digits>; every
\* user of explicit registration is reported as "regular".
C16_CreatedUsersAreGuests ==
    /\ \A c \in Clients :
        CreatedFor(c)
            => \A e \in EmailsOf(sessions[Get(issued[c])]) :
                    IsGuestEmail(e) /\ UserTypeOf(e) = "guest"
    /\ \A t \in DOMAIN sessions :
        sessions[t] = RegularUser
            => \A e \in EmailsOf(sessions[t]) : UserTypeOf(e) = "regular"

\* Where C16 fails: Guest Bootstrap has created a user, and whatever
\* address the plugin gave it, the type reported for it is "regular".
C16_GuestReportedRegular ==
    \E c \in Clients :
        /\ BootstrapAnswered(c) /\ lastCall[c] = "created" /\ CreatedFor(c)
        /\ sessions[Get(issued[c])] = AnonymousUser
        /\ \A e \in EmailsOf(sessions[Get(issued[c])]) : UserTypeOf(e) = "regular"

\* The part of C16 that holds: users of explicit registration are reported
\* as "regular".
C16_RegisteredReportedRegular ==
    \A t \in DOMAIN sessions :
        sessions[t] = RegularUser
            => \A e \in EmailsOf(sessions[t]) : UserTypeOf(e) = "regular"

----------------------------------------------------------------------------
(* What the application does to the Session Store.                         *)

\* The step is one of the application or of a client (not of the store).
AppStep == pc' # pc

\* Client c's step is Guest Bootstrap returning from a sign-in that
\* succeeded.
SignInStep(c) ==
    /\ pc[c] = "signIn" /\ req[c].url.path = GuestPath
    /\ pc'[c] = "received" /\ lastCall'[c] = "created"

\* C17: no step of the gate, of Guest Bootstrap, of a page or of a client
\* changes or removes a session the store has; a gate evaluation leaves the
\* store as it is; and the store changes only in Guest Bootstrap's
\* successful sign-in on the no-session path, by one new session of a new
\* anonymous user.
C17_StoreOnlyGrowsBySignIn ==
    [][AppStep
        => /\ \A t \in DOMAIN sessions :
                t \in DOMAIN sessions' /\ sessions'[t] = sessions[t]
           /\ \A c \in Clients : GateStep(c) => sessions' = sessions
           /\ sessions' # sessions
                => \E c \in Clients, t \in Tokens \ DOMAIN sessions :
                    /\ SignInStep(c) /\ lastCall[c] = "nosession"
                    /\ DOMAIN sessions' = DOMAIN sessions \cup {t}
                    /\ sessions'[t] = AnonymousUser
                    /\ issued'[c] = Some(t)]_vars

\* A new session beside one that was there before.
C17_Witness ==
    \E c \in Clients, t \in DOMAIN sessions :
        /\ BootstrapAnswered(c) /\ lastCall[c] = "created" /\ CreatedFor(c)
        /\ t # Get(issued[c])
        /\ sessions[t] = RegularUser

----------------------------------------------------------------------------
(* Requests handled at the same time.                                      *)

\* The gate's decision table: the outcome for a request, from the request
\* alone.
ExpectedGateKind(request) ==
    LET pathname == request.url.path
    IN  IF StartsWith(pathname, PingPrefix) THEN "pong"
        ELSE IF StartsWith(pathname, ApiPrefix) THEN "pass"
        ELSE IF pathname \in {LoginPath, RegisterPath} THEN "pass"
        ELSE IF HasSessionCookie(request) THEN "pass"
        ELSE IF ~IsProtected(pathname) THEN "pass"
        ELSE IF RefererQualifies(request.referer) THEN "pass"
        ELSE "guest"

\* Client c's step is Guest Bootstrap getting the answer of getSession.
LookupStep(c) ==
    /\ pc[c] = "routed" /\ req[c].url.path = GuestPath
    /\ pc'[c] # "routed"

\* The step leaves every client but c as it was.
OthersUntouched(c) ==
    \A d \in Clients \ {c} :
        /\ pc'[d] = pc[d] /\ req'[d] = req[d] /\ resp'[d] = resp[d]
        /\ jar'[d] = jar[d] /\ issued'[d] = issued[d]
        /\ lastCall'[d] = lastCall[d]

\* C18: under every interleaving of the two clients' requests, each step
\* of a request has the outcome the request would have alone with the
\* store as the step finds it: the gate decides by its table from the
\* request; Guest Bootstrap's lookup answers by the session the store has
\* for the request's cookie at that moment; its sign-in returns the cookie
\* of the session it has itself created; and no step touches the other
\* client's request or response.
C18_RequestsHandledIndependently ==
    [][\A c \in Clients :
        /\ GateStep(c)
            => /\ OthersUntouched(c)
               /\ LET kind == IF MatcherMatches(req[c].url.path)
                              THEN ExpectedGateKind(req[c]) ELSE "pass"
                  IN  /\ kind = "pass"
                        <=> (pc'[c] = "routed" /\ resp'[c].kind = "next")
                      /\ kind = "pong"
                        <=> (pc'[c] = "received" /\ resp'[c].body = "pong")
                      /\ kind = "guest"
                        <=> (/\ pc'[c] = "received"
                             /\ resp'[c].kind = "redirect"
                             /\ Get(resp'[c].location).path = GuestPath)
        /\ LookupStep(c)
            => /\ OthersUntouched(c) /\ sessions' = sessions
               /\ lastCall'[c] = "session"
                    => /\ IsSome(getSession(sessions, req[c]))
                       /\ resp'[c].location
                            = IF IsSome(Target(req[c])) THEN Target(req[c])
                              ELSE Some(LoginUrl(req[c]))
               /\ lastCall'[c] = "nosession"
                    => ~IsSome(getSession(sessions, req[c])) /\ pc'[c] = "signIn"
        /\ SignInStep(c)
            => /\ OthersUntouched(c)
               /\ IsSome(issued'[c]) /\ Get(issued'[c]) \notin DOMAIN sessions
               /\ \A d \in Clients \ {c} : jar[d] # issued'[c]
               /\ IsSome(Target(req[c]))
                    => /\ resp'[c].location = Target(req[c])
                       /\ resp'[c].setCookie
                            = Some(Cookie(SessionCookieName, Get(issued'[c])))]_vars

\* The second client has signed in between the first client's lookup and
\* its sign-in.
C18_Witness ==
    /\ pc["c1"] = "signIn" /\ lastCall["c1"] = "nosession"
    /\ pc["c2"] = "received" /\ lastCall["c2"] = "created"
    /\ req["c1"].url = req["c2"].url
    /\ CreatedFor("c2")

----------------------------------------------------------------------------
(* The root chat page.                                                     *)

\* The root page has answered client c's request.
PageAnswered(c) ==
    /\ pc[c] = "received" /\ req[c].url.path = RootPath
    /\ resp[c].branch \in RouteBranches

\* `${protocol}://${host}/` of a request, percent-encoded.
EncodedCurrentUrl(request) ==
    encodeURIComponent(
        (IF IsSome(request.xfp) THEN Get(request.xfp) ELSE Http)
        \o <<":", "/", "/">> \o HostOf(request.url) \o <<"/">>)

\* C19: the root page renders the chat only for a caller whose session the
\* store resolves to a user; for a caller who has passed the gate and for
\* whom getSession finds no user it renders nothing and redirects to
\* /api/auth/guest with redirectUrl the percent-encoded
\* <protocol>://<host>/.
C19_RootRenderedOnlyWithSession ==
    \A c \in Clients :
        PageAnswered(c)
            => /\ resp[c].body = "chat"
                    => /\ lastCall[c] = "session"
                       /\ IsSome(getSession(sessions, req[c]))
               /\ lastCall[c] = "nosession"
                    => /\ resp[c].kind = "redirect" /\ resp[c].body # "chat"
                       /\ resp[c].location
                            = Some(URL(req[c].url.origin, GuestPath,
                                       Some(RedirectUrlKey \o <<"=">>
                                            \o EncodedCurrentUrl(req[c]))))

\* A stale cookie has taken the request through the gate, and the page has
\* sent the caller to Guest Bootstrap.
C19_Witness ==
    \E c \in Clients :
        /\ PageAnswered(c) /\ lastCall[c] = "nosession"
        /\ HasSessionCookie(req[c])
        /\ RedirectsToGuest(c)
        /\ SchemeOf(req[c].url) = Https

----------------------------------------------------------------------------
(* Guest Bootstrap called again and again.                                 *)

\* C20: every call of Guest Bootstrap that finds no session for its
\* request and whose sign-in succeeds adds one session to the store, new
\* and beside all the sessions there are, whether or not other calls have
\* done so before or are doing so meanwhile and whether or not a client
\* ever takes the response: so N such calls add N sessions.
C20_EverySignInAddsASession ==
    [][\A c \in Clients :
        SignInStep(c)
            => /\ lastCall[c] = "nosession"
               /\ Cardinality(DOMAIN sessions') = Cardinality(DOMAIN sessions) + 1
               /\ DOMAIN sessions \subseteq DOMAIN sessions'
               /\ IsSome(issued'[c])
               /\ Get(issued'[c]) \in DOMAIN sessions' \ DOMAIN sessions
               /\ sessions'[Get(issued'[c])] = AnonymousUser]_vars

\* Two calls, two sessions: both clients' calls have created a session
\* each, and the second client has not taken its response.
C20_Witness ==
    /\ CreatedFor("c1") /\ CreatedFor("c2")
    /\ issued["c1"] # issued["c2"]
    /\ sessions[Get(issued["c1"])] = AnonymousUser
    /\ sessions[Get(issued["c2"])] = AnonymousUser
    /\ pc["c2"] = "received" /\ lastCall["c2"] = "created"
    /\ lastCall["c1"] = "created"

----------------------------------------------------------------------------
(* The return target, from the gate to Guest Bootstrap and back.           *)

\* Guest Bootstrap has answered, with a redirect from one of its two
\* returns that go to redirectUrl, a request that ends a chain begun by a
\* cookie-less request for a protected path.
AnsweredReturning(c) ==
    /\ StartedCookieless(c)
    /\ BootstrapAnswered(c) /\ lastCall[c] \in {"session", "created"}

\* C21: the redirectUrl the gate has written for a request is read back by
\* Guest Bootstrap as the URL of the request the caller began with,
\* character for character, and the redirect of the already-authenticated
\* and of the success path goes to that URL.  (For the root without query
\* the root page writes the same URL as the gate.)
C21_ReturnTargetRoundTrips ==
    \A c \in Clients :
        AnsweredReturning(c)
            => /\ RedirectUrlOf(req[c]) = Href(first[c].url)
               /\ resp[c].kind = "redirect"
               /\ resp[c].location = Some(first[c].url)

\* The round trip of a URL with a query that has "&", "=" and an escape.
C21_Witness ==
    \E c \in Clients :
        /\ AnsweredReturning(c) /\ lastCall[c] = "created"
        /\ first[c].url.path = ChatIdPath /\ first[c].url.query = Some(QAmp)
        /\ resp[c].location = Some(first[c].url)

----------------------------------------------------------------------------
(* Paths outside every test of the gate.                                   *)

\* The path is one no test of the gate names.
UnlistedPath(pathname) ==
    /\ ~StartsWith(pathname, PingPrefix)
    /\ ~StartsWith(pathname, ApiPrefix)
    /\ pathname \notin {LoginPath, RegisterPath, RootPath}
    /\ ~StartsWith(pathname, ChatPrefix)

\* C22: a request that reaches the gate for a path that is none of /ping...,
\* /api/..., /login, /register, / and /chat... is passed through, with or
\* without session cookie.
C22_UnlistedPathsPass ==
    \A c \in Clients :
        (GateEvaluated(c) /\ UnlistedPath(req[c].url.path))
            => /\ PassesThrough(c)
               /\ resp[c].branch = "default"

C22_Witness ==
    \E c \in Clients :
        /\ GateEvaluated(c) /\ req[c].url.path = DocsPath
        /\ ~HasSessionCookie(req[c]) /\ ~RefererQualifies(req[c].referer)
        /\ PassesThrough(c)

----------------------------------------------------------------------------
(* SidebarUserNav (src/components/sidebar-user-nav.tsx).                   *)
(*                                                                         *)
(* nav.user: the user prop is set; nav.isPending and nav.email: what       *)
(* useSessionWithType gives (isPending, data?.user?.email); nav.clicks:    *)
(* clicks on the auth item; nav.toasts: error toasts shown;                *)
(* nav.signOutCalls, nav.signingOut, nav.signedOut: calls of signOut made, *)
(* pending and completed; nav.pushed: the paths given to router.push.      *)

\* Clicks on the auth item followed in one run.
MaxClicks == 2

\* guestRegex.test(s), guestRegex being the pattern of a guest's e-mail
\* address.
guestRegex(s) == IsGuestEmail(s)

\* const isGuest = guestRegex.test(data?.user?.email ?? '')
isGuest(n) == guestRegex(IF IsSome(n.email) THEN Get(n.email) ELSE <<>>)

\* A handler that navigates to "/" without waiting for signOut.
onClick_PushesAtOnce(n) ==
    IF n.isPending THEN [n EXCEPT !.toasts = @ + 1]
    ELSE IF isGuest(n) THEN [n EXCEPT !.pushed = Append(@, LoginPath)]
    ELSE [n EXCEPT !.signOutCalls = @ + 1, !.signingOut = @ + 1,
                   !.pushed = Append(@, RootPath)]

\* onClick, up to its return or to its await of signOut().
onClick(n) ==
    IF n.isPending THEN [n EXCEPT !.toasts = @ + 1]
    ELSE IF isGuest(n) THEN [n EXCEPT !.pushed = Append(@, LoginPath)]
    ELSE [n EXCEPT !.signOutCalls = @ + 1, !.signingOut = @ + 1]

\* onClick, from the completion of signOut() on.
onClickResumed(n) ==
    [n EXCEPT !.signingOut = @ - 1, !.signedOut = @ + 1,
              !.pushed = Append(@, RootPath)]

\* E-mail addresses of the session the hook reports.
NavEmails ==
    { <<"g", "u", "e", "s", "t", "-", "1", "7">>, <<"u", "@", "x", ".", "y">>,
      <<"g", "u", "e", "s", "t", "-", "1", "@">> \o AnonymousEmailDomain }

\* The request flow at rest.
FlowIdle ==
    /\ pc = [c \in Clients |-> "off"]
    /\ req = [c \in Clients |-> IdleRequest]
    /\ first = [c \in Clients |-> IdleRequest]
    /\ resp = [c \in Clients |-> NoOutcome]
    /\ jar = [c \in Clients |-> None]
    /\ storesCookie = [c \in Clients |-> FALSE]
    /\ refererMode = [c \in Clients |-> "keep"]
    /\ issued = [c \in Clients |-> None]
    /\ lastCall = [c \in Clients |-> "none"]
    /\ sessions = EmptyStore
    /\ storeWorking = TRUE

NavInit ==
    /\ FlowIdle
    /\ hist = HistUnmounted /\ grp = GrpUnmounted
    /\ \E u \in BOOLEAN, p \in BOOLEAN, e \in {None} \cup {Some(x) : x \in NavEmails} :
        nav = [NavUnmounted EXCEPT !.mounted = TRUE, !.user = u,
                                   !.isPending = p, !.email = e]

\* The session check ends: the hook reports a session, or none.
NavSessionSettles ==
    /\ nav.mounted /\ nav.isPending
    /\ \E e \in {None} \cup {Some(x) : x \in NavEmails} :
        nav' = [nav EXCEPT !.isPending = FALSE, !.email = e]
    /\ UNCHANGED <<FlowVars, hist, grp>>

\* The hook starts to check the session again.
NavSessionRefetches ==
    /\ nav.mounted /\ ~nav.isPending
    /\ nav' = [nav EXCEPT !.isPending = TRUE]
    /\ UNCHANGED <<FlowVars, hist, grp>>

\* A click on the auth item, which is rendered when the user prop is set.
NavClick ==
    /\ nav.mounted /\ nav.user
    /\ nav.clicks < MaxClicks
    /\ nav' = [onClick(nav) EXCEPT !.clicks = @ + 1]
    /\ UNCHANGED <<FlowVars, hist, grp>>

\* A pending signOut() completes, and its handler goes on.
NavSignOutResolves ==
    /\ nav.signingOut > 0
    /\ nav' = onClickResumed(nav)
    /\ UNCHANGED <<FlowVars, hist, grp>>

\* A pending signOut() fails: its handler ends with the rejection.
NavSignOutRejects ==
    /\ nav.signingOut > 0
    /\ nav' = [nav EXCEPT !.signingOut = @ - 1]
    /\ UNCHANGED <<FlowVars, hist, grp>>

NavNext ==
    \/ NavSessionSettles
    \/ NavSessionRefetches
    \/ NavClick
    \/ NavSignOutResolves
    \/ NavSignOutRejects

NavSpec == NavInit /\ [][NavNext]_vars

\* The step is a click on the auth item.
NavClickStep == nav'.clicks = nav.clicks + 1

\* The number of times path p has been pushed.
PushedCount(n, p) == Cardinality({i \in 1..Len(n.pushed) : n.pushed[i] = p})

\* C23: a click while the session check is pending shows an error toast
\* and does nothing else; a click of a guest navigates to /login and calls
\* no signOut; a click of anyone else calls signOut and navigates nowhere
\* in that step; and "/" is pushed only in the step in which a signOut
\* completes, so never more often than signOut has completed.
C23_AuthClickOrder ==
    /\ [](PushedCount(nav, RootPath) <= nav.signedOut)
    /\ [][/\ NavClickStep
            => IF nav.isPending
               THEN /\ nav'.toasts = nav.toasts + 1
                    /\ nav'.pushed = nav.pushed
                    /\ nav'.signOutCalls = nav.signOutCalls
               ELSE IF isGuest(nav)
               THEN /\ nav'.pushed = Append(nav.pushed, LoginPath)
                    /\ nav'.signOutCalls = nav.signOutCalls
                    /\ nav'.signingOut = nav.signingOut
                    /\ nav'.toasts = nav.toasts
               ELSE /\ nav'.signOutCalls = nav.signOutCalls + 1
                    /\ nav'.signingOut = nav.signingOut + 1
                    /\ nav'.pushed = nav.pushed
                    /\ nav'.toasts = nav.toasts
          /\ PushedCount(nav', RootPath) > PushedCount(nav, RootPath)
            => /\ nav.signingOut > 0
               /\ nav'.signedOut = nav.signedOut + 1
               /\ nav'.pushed = Append(nav.pushed, RootPath)]_vars

\* A pending click, then a guest's click, then a signed-in user's click
\* whose signOut has completed.
C23_Witness ==
    /\ nav.toasts = 1
    /\ nav.pushed = <<RootPath>>
    /\ nav.signedOut = 1 /\ nav.signingOut = 0
    /\ nav.clicks = 2

----------------------------------------------------------------------------
(* SidebarHistory (src/unnamed/part_000).                                  *)
(*                                                                         *)
(* hist.user: the user prop is set; hist.id: the chat open in the page     *)
(* (useParams); hist.pages: the data useSWRInfinite gives; hist.size: the  *)
(* number of pages asked for; hist.isValidating and hist.building: a load  *)
(* in progress and the pages it has so far; hist.call: the last call of    *)
(* getChatHistoryPaginationKey; hist.gone: chats deleted on the server;    *)
(* hist.deleteId and hist.showDeleteDialog: the component's state;         *)
(* hist.deleting: the DELETE requests in flight, each with the deleteId    *)
(* its handler closed over; hist.toasts: the toasts that ended them;       *)
(* hist.pushed: the paths given to router.push.                            *)

\* Pages asked for at most, DELETE requests made at most, and chats in one
\* page at most.
MaxPages == 2
MaxDeletes == 2
MaxPageLen == 2

\* The createdAt of the chats of the server, as serialized, newest first;
\* a chat's id is its place in this list.
ChatTimes == << <<"3", "0">>, <<"2", "0">>, <<"1", "0">> >>
ChatIds == 1..Len(ChatTimes)
Chat(i) == [id |-> i, createdAt |-> ChatTimes[i]]

HistoryKeyPrefix ==
    <<"/", "a", "p", "i", "/", "h", "i", "s", "t", "o", "r", "y", "?", "i", "n", "d", "e", "x", "=">>
AfterParam == <<"&", "a", "f", "t", "e", "r", "=">>
NullText == <<"n", "u", "l", "l">>
DigitChars == <<"0", "1", "2", "3", "4", "5", "6", "7", "8", "9">>

\* A number in a template literal: its decimal digits.
RECURSIVE NumberToString(_)
NumberToString(n) ==
    IF n < 10 THEN <<DigitChars[n + 1]>>
    ELSE NumberToString(n \div 10) \o <<DigitChars[(n % 10) + 1]>>

ChatHistory(chats, hasMore) == [chats |-> chats, hasMore |-> hasMore]

\* A key function that goes on after the end.
getChatHistoryPaginationKey_PastEnd(index, previousPageData) ==
    Some(HistoryKeyPrefix \o NumberToString(index) \o AfterParam
         \o (IF IsSome(previousPageData) /\ Get(previousPageData).chats # <<>>
             THEN Get(previousPageData).chats[Len(Get(previousPageData).chats)].createdAt
             ELSE NullText))

\* getChatHistoryPaginationKey; previousPageData is None for null.
getChatHistoryPaginationKey(index, previousPageData) ==
    IF IsSome(previousPageData) /\ ~Get(previousPageData).hasMore THEN None
    ELSE Some(HistoryKeyPrefix \o NumberToString(index) \o AfterParam
              \o (IF IsSome(previousPageData) /\ Get(previousPageData).chats # <<>>
                  THEN Get(previousPageData).chats[Len(Get(previousPageData).chats)].createdAt
                  ELSE NullText))

\* paginatedChatHistories.some((page) => page.hasMore === false)
hasReachedEnd(h) == \E i \in 1..Len(h.pages) : h.pages[i].hasMore = FALSE

\* paginatedChatHistories.every((page) => page.chats.length === 0)
hasEmptyChatHistory(h) == \A i \in 1..Len(h.pages) : Len(h.pages[i].chats) = 0

\* The list of chats, with its dialog, is rendered.
ListRendered(h) == h.mounted /\ h.user /\ ~hasEmptyChatHistory(h)

\* The "Load more" trigger is rendered.
LoadMoreShown(h) == ListRendered(h) /\ ~hasReachedEnd(h)

\* The ids of the chats in pages.
ChatIdsIn(pages) ==
    {pages[i].chats[j].id : <<i, j>> \in
        {<<i, j>> \in (1..Len(pages)) \X (1..MaxPageLen + 1) : j <= Len(pages[i].chats)}}

\* The chats with ids in ids, newest first.
RECURSIVE ChatsOf(_)
ChatsOf(ids) ==
    IF ids = {} THEN <<>>
    ELSE LET i == CHOOSE x \in ids : \A y \in ids : x <= y
         IN <<Chat(i)>> \o ChatsOf(ids \ {i})

\* What the server may answer to a request for a page: some of the chats
\* it has that are not in the pages before, and whether there are more.
ServerPages(h) ==
    {ChatHistory(ChatsOf(ids), m) :
        ids \in {x \in SUBSET (ChatIds \ (h.gone \cup ChatIdsIn(h.building))) :
                    Cardinality(x) <= MaxPageLen},
        m \in BOOLEAN}

\* The page of index i of a load: the first page is fetched again, a later
\* page is taken from the cache when its key is the one it was cached
\* under.
PageSources(h, i, key) ==
    IF i > 0 /\ i < Len(h.pages)
       /\ getChatHistoryPaginationKey(i, Some(h.pages[i])) = key
    THEN {h.pages[i + 1]}
    ELSE ServerPages(h)

\* The previous page of the page of index i of a load.
PreviousPageData(h, i) == IF i = 0 THEN None ELSE Some(h.building[i])

\* The updater handed to mutate: deleteId is filtered out of every page.
removeChat(chatHistories, deleteId) ==
    [i \in 1..Len(chatHistories) |->
        [chatHistories[i] EXCEPT
            !.chats = SelectSeq(@, LAMBDA chat : chat.id # deleteId)]]

\* A handler that removes the chat before the request has answered.
handleDelete_Optimistic(h) ==
    [h EXCEPT !.deleting = Append(@, Get(h.deleteId)),
              !.pages = removeChat(@, Get(h.deleteId)),
              !.showDeleteDialog = FALSE,
              !.pushed = IF h.deleteId = h.id THEN Append(@, RootPath) ELSE @]

\* handleDelete: the request is sent, the dialog closed, and "/" pushed
\* when the chat deleted is the open one.
handleDelete(h) ==
    [h EXCEPT !.deleting = Append(@, Get(h.deleteId)),
              !.showDeleteDialog = FALSE,
              !.pushed = IF h.deleteId = h.id THEN Append(@, RootPath) ELSE @]

\* The success callback of toast.promise, for the request of deleteId.
deleteSuccess(h, deleteId) ==
    [h EXCEPT !.pages = removeChat(@, deleteId),
              !.toasts = Append(@, [type |-> "success", id |-> deleteId])]

\* The error toast of toast.promise, for the request of deleteId.
deleteError(h, deleteId) ==
    [h EXCEPT !.toasts = Append(@, [type |-> "error", id |-> deleteId])]

\* Sequence s without its element of index k.
RemoveAt(s, k) == SubSeq(s, 1, k - 1) \o SubSeq(s, k + 1, Len(s))

HistInit ==
    /\ FlowIdle
    /\ nav = NavUnmounted /\ grp = GrpUnmounted
    /\ \E u \in BOOLEAN, open \in {None, Some(1)} :
        hist = [HistUnmounted EXCEPT !.mounted = TRUE, !.user = u,
                                     !.id = open, !.isValidating = TRUE]

\* A load goes on to its next page: the key is computed and the page got.
HistPageLoads ==
    /\ hist.isValidating /\ Len(hist.building) < hist.size
    /\ LET i == Len(hist.building)
           prev == PreviousPageData(hist, i)
           key == getChatHistoryPaginationKey(i, prev)
       IN /\ IsSome(key)
          /\ \E page \in PageSources(hist, i, key) :
                hist' = [hist EXCEPT
                            !.building = Append(@, page),
                            !.call = Some([index |-> i, previousPageData |-> prev,
                                           key |-> key])]
    /\ UNCHANGED <<FlowVars, nav, grp>>

\* A load ends: all the pages asked for are there, or the key is null.
HistLoadEnds ==
    /\ hist.isValidating
    /\ LET i == Len(hist.building)
           prev == PreviousPageData(hist, i)
           key == getChatHistoryPaginationKey(i, prev)
       IN \/ /\ i = hist.size
             /\ hist' = [hist EXCEPT !.pages = hist.building,
                                     !.isValidating = FALSE]
          \/ /\ i < hist.size /\ key = None
             /\ hist' = [hist EXCEPT
                            !.pages = hist.building, !.isValidating = FALSE,
                            !.call = Some([index |-> i, previousPageData |-> prev,
                                           key |-> key])]
    /\ UNCHANGED <<FlowVars, nav, grp>>

\* The data is revalidated (focus, reconnection).
HistRevalidate ==
    /\ hist.mounted /\ ~hist.isValidating
    /\ hist' = [hist EXCEPT !.isValidating = TRUE, !.building = <<>>]
    /\ UNCHANGED <<FlowVars, nav, grp>>

\* The "Load more" trigger: setSize((size) => size + 1).
HistLoadMore ==
    /\ LoadMoreShown(hist) /\ ~hist.isValidating
    /\ hist.size < MaxPages
    /\ hist' = [hist EXCEPT !.size = @ + 1, !.isValidating = TRUE,
                            !.building = <<>>]
    /\ UNCHANGED <<FlowVars, nav, grp>>

\* onDelete of a chat item.
HistClickDelete(chatId) ==
    /\ ListRendered(hist) /\ ~hist.showDeleteDialog
    /\ chatId \in ChatIdsIn(hist.pages)
    /\ hist' = [hist EXCEPT !.deleteId = Some(chatId),
                            !.showDeleteDialog = TRUE]
    /\ UNCHANGED <<FlowVars, nav, grp>>

\* The dialog is dismissed.
HistCancelDelete ==
    /\ ListRendered(hist) /\ hist.showDeleteDialog
    /\ hist' = [hist EXCEPT !.showDeleteDialog = FALSE]
    /\ UNCHANGED <<FlowVars, nav, grp>>

\* The dialog's action: handleDelete runs; the router then leaves the chat
\* when "/" was pushed.
HistConfirmDelete ==
    /\ ListRendered(hist) /\ hist.showDeleteDialog
    /\ Len(hist.deleting) + Len(hist.toasts) < MaxDeletes
    /\ hist' = [handleDelete(hist) EXCEPT
                    !.id = IF hist.deleteId = hist.id THEN None ELSE @]
    /\ UNCHANGED <<FlowVars, nav, grp>>

\* The DELETE request of index k answers with an ok response: the success
\* callback runs, and the mutation restarts the load.
HistDeleteSucceeds(k) ==
    /\ k \in 1..Len(hist.deleting)
    /\ hist' = [deleteSuccess(hist, hist.deleting[k]) EXCEPT
                    !.deleting = RemoveAt(@, k),
                    !.gone = @ \cup {hist.deleting[k]},
                    !.isValidating = TRUE, !.building = <<>>]
    /\ UNCHANGED <<FlowVars, nav, grp>>

\* The DELETE request of index k answers with an error status, or fails.
HistDeleteFails(k) ==
    /\ k \in 1..Len(hist.deleting)
    /\ hist' = [deleteError(hist, hist.deleting[k]) EXCEPT
                    !.deleting = RemoveAt(@, k)]
    /\ UNCHANGED <<FlowVars, nav, grp>>

\* Loading and paging, with no deletion.
PaginationNext ==
    \/ HistPageLoads
    \/ HistLoadEnds
    \/ HistRevalidate
    \/ HistLoadMore

PaginationSpec == HistInit /\ [][PaginationNext]_vars

\* Histories of two pages, as loaded.
LoadedHistories ==
    { <<ChatHistory(<<Chat(1), Chat(2)>>, TRUE), ChatHistory(<<Chat(3)>>, FALSE)>>,
      <<ChatHistory(<<Chat(1)>>, TRUE), ChatHistory(<<Chat(2)>>, TRUE)>> }

\* The history is loaded, a chat may be open, and nothing is being deleted.
DeleteInit ==
    /\ FlowIdle
    /\ nav = NavUnmounted /\ grp = GrpUnmounted
    /\ \E pages \in LoadedHistories, open \in {None, Some(1), Some(3)} :
        hist = [HistUnmounted EXCEPT
                    !.mounted = TRUE, !.user = TRUE, !.id = open,
                    !.pages = pages, !.building = pages, !.size = Len(pages),
                    !.call = Some([index |-> Len(pages) - 1,
                                   previousPageData |-> Some(pages[Len(pages) - 1]),
                                   key |-> getChatHistoryPaginationKey(
                                               Len(pages) - 1,
                                               Some(pages[Len(pages) - 1]))])]

\* Deletion, with the loads that mutations start.
DeleteNext ==
    \/ HistPageLoads
    \/ HistLoadEnds
    \/ \E chatId \in ChatIds : HistClickDelete(chatId)
    \/ HistCancelDelete
    \/ HistConfirmDelete
    \/ \E k \in 1..MaxDeletes : HistDeleteSucceeds(k)
    \/ \E k \in 1..MaxDeletes : HistDeleteFails(k)

DeleteSpec == DeleteInit /\ [][DeleteNext]_vars

----------------------------------------------------------------------------
(* Claims on SidebarHistory.                                               *)

IndexKey == <<"i", "n", "d", "e", "x">>
AfterKey == <<"a", "f", "t", "e", "r">>

\* The cursor the key of a page carries: the createdAt of the last chat of
\* the previous page, "null" when there is no such chat.
CursorAfter(previousPageData) ==
    IF IsSome(previousPageData) /\ Len(Get(previousPageData).chats) > 0
    THEN Get(previousPageData).chats[Len(Get(previousPageData).chats)].createdAt
    ELSE NullText

\* The last call of the key function returned what it should: null exactly
\* for a previous page with hasMore false, and otherwise
\* /api/history?index=<index>&after=<cursor>.
KeyAsSpecified(call) ==
    /\ call.key = None
        <=> IsSome(call.previousPageData) /\ ~Get(call.previousPageData).hasMore
    /\ IsSome(call.key)
        => /\ StartsWith(Get(call.key), ApiHistoryPath \o <<"?">>)
           /\ SearchParamsGet(Drop(Get(call.key), Len(ApiHistoryPath) + 1), IndexKey)
                = Some(<<DigitChars[call.index + 1]>>)
           /\ SearchParamsGet(Drop(Get(call.key), Len(ApiHistoryPath) + 1), AfterKey)
                = Some(CursorAfter(call.previousPageData))

OtherChats(page, deleteId) == SelectSeq(page.chats, LAMBDA chat : chat.id # deleteId)

\* C25: handleDelete closes the dialog, sends the request and, when the
\* chat is the open one, pushes "/", all at once and with the pages as
\* they are; when the request succeeds the chat is taken out of every
\* page, the other chats and hasMore staying; when it fails the pages
\* stay, and the navigation made stays too; and the pages change in no
\* other step but the end of a load.
C25_DeleteAfterSuccess ==
    [][/\ Len(hist'.deleting) = Len(hist.deleting) + 1
         => /\ hist'.deleting = Append(hist.deleting, Get(hist.deleteId))
            /\ ~hist'.showDeleteDialog
            /\ hist'.pages = hist.pages
            /\ hist'.toasts = hist.toasts
            /\ hist'.pushed = IF hist.deleteId = hist.id
                              THEN Append(hist.pushed, RootPath)
                              ELSE hist.pushed
       /\ Len(hist'.toasts) = Len(hist.toasts) + 1
         => /\ hist'.pushed = hist.pushed
            /\ hist'.showDeleteDialog = hist.showDeleteDialog
            /\ Len(hist'.deleting) = Len(hist.deleting) - 1
            /\ hist'.toasts[Len(hist'.toasts)].type = "error"
                => hist'.pages = hist.pages
            /\ hist'.toasts[Len(hist'.toasts)].type = "success"
                => /\ Len(hist'.pages) = Len(hist.pages)
                   /\ \A i \in 1..Len(hist.pages) :
                        /\ hist'.pages[i].hasMore = hist.pages[i].hasMore
                        /\ hist'.pages[i].chats
                            = OtherChats(hist.pages[i],
                                         hist'.toasts[Len(hist'.toasts)].id)
       /\ hist'.pages # hist.pages
         => \/ /\ Len(hist'.toasts) = Len(hist.toasts) + 1
               /\ hist'.toasts[Len(hist'.toasts)].type = "success"
            \/ hist.isValidating /\ ~hist'.isValidating]_vars

\* The open chat 1 and chat 3 were deleted at once; the request for chat 1
\* has failed and that for chat 3 has just succeeded: "/" was pushed,
\* chat 1 is still listed and chat 3 is in no page.
C25_Witness ==
    /\ hist.toasts = <<[type |-> "error", id |-> 1], [type |-> "success", id |-> 3]>>
    /\ hist.pushed = <<RootPath>>
    /\ hist.isValidating /\ hist.building = <<>>
    /\ Len(hist.pages) = 2
    /\ 1 \in ChatIdsIn(hist.pages) /\ 3 \notin ChatIdsIn(hist.pages)
    /\ ~hist.showDeleteDialog

----------------------------------------------------------------------------
(* groupChatsByDate (src/unnamed/part_000).                                *)
(*                                                                         *)
(* Time is counted in ticks, DayTicks of them to a day; a createdAt is the *)
(* text of a tick count, and a text that is no number gives an invalid     *)
(* date. grp.chats is the argument, grp.now the clock at the call,         *)
(* grp.monthDays the length of the month before, grp.groups the result.    *)

\* Chats in the argument at most.
MaxChatList == 3

DayTicks == 2

NoGroups ==
    [today |-> <<>>, yesterday |-> <<>>, lastWeek |-> <<>>,
     lastMonth |-> <<>>, older |-> <<>>]

\* The value of a digit.
DigitValue(ch) == CHOOSE d \in 0..9 : DigitChars[d + 1] = ch

RECURSIVE DigitsValue(_, _)
DigitsValue(s, n) ==
    IF n = 0 THEN 0 ELSE 10 * DigitsValue(s, n - 1) + DigitValue(s[n])

\* new Date(createdAt): the time, None for an invalid date.
NewDate(createdAt) ==
    IF Len(createdAt) > 0 /\ \A i \in 1..Len(createdAt) : createdAt[i] \in Digits
    THEN Some(DigitsValue(createdAt, Len(createdAt)))
    ELSE None

\* The day a time falls in.
DayOf(t) == t \div DayTicks

isToday(date, now) == IsSome(date) /\ DayOf(Get(date)) = DayOf(now)
isYesterday(date, now) == IsSome(date) /\ DayOf(Get(date)) = DayOf(now) - 1
subWeeks(now, amount) == now - amount * 7 * DayTicks
\* subMonths(now, 1), the month before now having monthDays days.
subMonths(now, monthDays) == now - monthDays * DayTicks
\* date > other; false for an invalid date.
After(date, other) == IsSome(date) /\ Get(date) > other

\* groups with chat pushed to the group named key.
Push(groups, key, chat) == [groups EXCEPT ![key] = Append(@, chat)]

\* A grouping in which the time tests do not exclude the tests before them.
RECURSIVE groupChatsByDate_EveryMatch(_, _, _)
groupChatsByDate_EveryMatch(chats, now, monthDays) ==
    IF chats = <<>> THEN NoGroups
    ELSE LET groups == groupChatsByDate_EveryMatch(
                            SubSeq(chats, 1, Len(chats) - 1), now, monthDays)
             chat == chats[Len(chats)]
             chatDate == NewDate(chat.createdAt)
             g1 == IF isToday(chatDate, now) THEN Push(groups, "today", chat)
                   ELSE IF isYesterday(chatDate, now)
                   THEN Push(groups, "yesterday", chat) ELSE groups
             g2 == IF After(chatDate, subWeeks(now, 1))
                   THEN Push(g1, "lastWeek", chat) ELSE g1
         IN IF After(chatDate, subWeeks(now, 1)) THEN g2
            ELSE IF After(chatDate, subMonths(now, monthDays))
            THEN Push(g2, "lastMonth", chat)
            ELSE Push(g2, "older", chat)

\* The reducer of groupChatsByDate.
GroupStep(groups, chat, now, monthDays) ==
    LET chatDate == NewDate(chat.createdAt)
    IN IF isToday(chatDate, now) THEN Push(groups, "today", chat)
       ELSE IF isYesterday(chatDate, now) THEN Push(groups, "yesterday", chat)
       ELSE IF After(chatDate, subWeeks(now, 1)) THEN Push(groups, "lastWeek", chat)
       ELSE IF After(chatDate, subMonths(now, monthDays))
       THEN Push(groups, "lastMonth", chat)
       ELSE Push(groups, "older", chat)

\* groupChatsByDate(chats), called at time now.
RECURSIVE groupChatsByDate(_, _, _)
groupChatsByDate(chats, now, monthDays) ==
    IF chats = <<>> THEN NoGroups
    ELSE GroupStep(groupChatsByDate(SubSeq(chats, 1, Len(chats) - 1), now, monthDays),
                   chats[Len(chats)], now, monthDays)

\* The clock at the call: the first tick of day 40, and its second.
NowSamples == {80, 81}
\* The lengths of the month before.
MonthLengths == {28, 31}
\* The createdAt of the chats given: tomorrow, today, yesterday, two days
\* ago, around a week ago, around a month ago, long ago, and no date.
CreatedAtSamples ==
    { <<"8", "2">>, <<"8", "0">>, <<"7", "9">>, <<"7", "7">>,
      <<"6", "7">>, <<"6", "6">>, <<"2", "5">>, <<"2", "4">>,
      <<"1", "9">>, <<"1", "8">>, <<"3">>, <<"x">> }

\* The lists of at most MaxChatList chats, the id of a chat being its
\* place in the list.
ChatLists ==
    UNION { {[i \in 1..n |-> [id |-> i, createdAt |-> f[i]]] :
                f \in [1..n -> CreatedAtSamples]} : n \in 0..MaxChatList }

GrpInit ==
    /\ FlowIdle
    /\ nav = NavUnmounted /\ hist = HistUnmounted
    /\ \E chats \in ChatLists, now \in NowSamples, monthDays \in MonthLengths :
        grp = [GrpUnmounted EXCEPT !.chats = chats, !.now = now,
                                   !.monthDays = monthDays]

\* The call of groupChatsByDate.
GrpCall ==
    /\ ~grp.called
    /\ grp' = [grp EXCEPT !.called = TRUE,
                          !.groups = groupChatsByDate(grp.chats, grp.now,
                                                      grp.monthDays)]
    /\ UNCHANGED <<FlowVars, nav, hist>>

GrpNext == GrpCall

GrpSpec == GrpInit /\ [][GrpNext]_vars

GroupNames == {"today", "yesterday", "lastWeek", "lastMonth", "older"}

\* The places at which the chat of id i stands in group key.
PlacesIn(groups, key, i) ==
    {j \in 1..Len(groups[key]) : groups[key][j].id = i}

\* The group the claim gives a chat created at createdAt: the first of
\* the five tests that holds.
GroupFor(createdAt, now, monthDays) ==
    LET d == NewDate(createdAt)
    IN CASE IsSome(d) /\ Get(d) \div DayTicks = now \div DayTicks -> "today"
         [] IsSome(d) /\ Get(d) \div DayTicks = (now \div DayTicks) - 1 -> "yesterday"
         [] IsSome(d) /\ Get(d) > now - 7 * DayTicks -> "lastWeek"
         [] IsSome(d) /\ Get(d) > now - monthDays * DayTicks -> "lastMonth"
         [] OTHER -> "older"

\* C26: the result of groupChatsByDate holds every chat of the argument
\* once, in the group of the first test that holds for it and in no other,
\* holds nothing else, and keeps the order of the argument in each group.
C26_GroupsPartitionInput ==
    grp.called =>
        /\ \A i \in 1..Len(grp.chats) :
            /\ Cardinality(PlacesIn(grp.groups,
                    GroupFor(grp.chats[i].createdAt, grp.now, grp.monthDays), i)) = 1
            /\ \A key \in GroupNames :
                key # GroupFor(grp.chats[i].createdAt, grp.now, grp.monthDays)
                    => PlacesIn(grp.groups, key, i) = {}
        /\ \A key \in GroupNames :
            /\ \A j \in 1..Len(grp.groups[key]) :
                /\ grp.groups[key][j].id \in 1..Len(grp.chats)
                /\ grp.groups[key][j] = grp.chats[grp.groups[key][j].id]
            /\ \A j, k \in 1..Len(grp.groups[key]) :
                j < k => grp.groups[key][j].id < grp.groups[key][k].id

\* Three chats grouped: one of today that also is within the week, and two
\* of the last month in the order given, the first of them just a week
\* old.
C26_Witness ==
    /\ grp.called /\ grp.now = 81
    /\ Len(grp.chats) = 3
    /\ grp.chats[1].createdAt = <<"6", "7">>
    /\ grp.chats[2].createdAt = <<"8", "0">>
    /\ grp.chats[3].createdAt = <<"2", "4">>
    /\ grp.monthDays = 31
    /\ grp.groups.today = <<grp.chats[2]>>
    /\ grp.groups.lastMonth = <<grp.chats[1], grp.chats[3]>>

----------------------------------------------------------------------------
(* Guest Bootstrap: where it redirects to.                                 *)

\* Guest Bootstrap has answered from one of its two returns that go to
\* redirectUrl, and redirectUrl resolves to a URL.
AnsweredToTarget(c) ==
    /\ BootstrapAnswered(c) /\ lastCall[c] \in {"session", "created"}
    /\ IsSome(Target(req[c]))

\* C27: on the already-authenticated and on the success path the redirect
\* goes to redirectUrl resolved against the request URL, whatever its
\* origin: for the absolute redirectUrl http://e/ it goes to the origin
\* http://e, which is not the request's, and on the success path it
\* carries the set-cookie header of the session just created.
C27_TargetNotRestricted ==
    \A c \in Clients :
        AnsweredToTarget(c)
            => /\ resp[c].kind = "redirect"
               /\ resp[c].location = Target(req[c])
               /\ req[c].url.query = Some(QOther)
                    => /\ Get(resp[c].location).origin = Origin(Http, OtherHost)
                       /\ Get(resp[c].location).origin # req[c].url.origin
               /\ lastCall[c] = "created"
                    => resp[c].setCookie
                        = Some(Cookie(SessionCookieName, Get(issued[c])))

\* A sign-in that answers with a redirect to the other origin and the
\* cookie of the new session.
C27_Witness ==
    \E c \in Clients :
        /\ AnsweredToTarget(c) /\ lastCall[c] = "created"
        /\ req[c].url.query = Some(QOther)
        /\ resp[c].location = Some(URL(Origin(Http, OtherHost), RootPath, None))
        /\ IsSome(resp[c].setCookie)

----------------------------------------------------------------------------
(* The referer exemption.                                                  *)

\* Referer values with /api/auth/guest in the path of another origin, in a
\* query, as the start of a longer path, and after a path of its own
\* origin, and values without it.
RefererSamples ==
    { RefGuest, RefDocs,
      <<"h", "t", "t", "p", ":", "/", "/", "e", "/", "x", "?", "u", "=">> \o GuestPath,
      Origin(Https, AppHost) \o GuestPath \o <<"b", "o", "o", "k">>,
      Origin(Http, AppHost) \o GuestPath \o <<"?">> \o QChat,
      GuestPath,
      Origin(Http, AppHost) \o <<"/", "a", "p", "i", "/", "a", "u", "t", "h">>,
      Origin(Http, AppHost) \o <<"/", "a", "u", "t", "h", "/", "g", "u", "e", "s", "t">> }

\* The text contains /api/auth/guest at some place.
ContainsGuestPath(s) ==
    \E i \in 1..Len(s) :
        /\ i + Len(GuestPath) - 1 <= Len(s)
        /\ \A j \in 1..Len(GuestPath) : s[i + j - 1] = GuestPath[j]

\* C28: a cookie-less request for a protected path passes the gate exactly
\* when its referer contains /api/auth/guest, and would do so with any
\* referer that contains it, wherever it stands in the value and whatever
\* the origin, and with no other; that holds for the first request of a
\* client too, which no visit of Guest Bootstrap has preceded.
C28_RefererExemptionBySubstring ==
    \A c \in Clients :
        (GateEvaluated(c) /\ IsProtected(req[c].url.path)
         /\ ~HasSessionCookie(req[c]))
            => /\ PassesThrough(c)
                    <=> /\ IsSome(req[c].referer)
                        /\ ContainsGuestPath(Get(req[c].referer))
               /\ ~PassesThrough(c) => RedirectsToGuestWithReturn(c)
               /\ \A r \in RefererSamples :
                    middleware(Request(req[c].url, req[c].cookies, Some(r),
                                       req[c].xfp)).kind = "next"
                        <=> ContainsGuestPath(r)

\* The first request of a client, with no cookie and a referer of another
\* origin that contains /api/auth/guest, passes the gate for a chat.
C28_Witness ==
    \E c \in Clients :
        /\ GateEvaluated(c) /\ req[c] = first[c] /\ lastCall[c] = "none"
        /\ issued[c] = None /\ sessions = EmptyStore
        /\ req[c].url.path = ChatIdPath /\ ~HasSessionCookie(req[c])
        /\ req[c].referer = Some(RefGuest)
        /\ PassesThrough(c)

====
